---- MODULE Spec2Model ----
(***************************************************************************)
(* Model of the resource factory (namespace dmResource): the handler       *)
(* registry, the transport loader, the interned resource tables with their *)
(* reference counts, reload and the reload observers.                      *)
(*                                                                         *)
(* Strings are sequences of one-character strings, so that path            *)
(* canonicalization and extension lookup are computed character by         *)
(* character as the code does.  Addresses are positive integers, 0 is the  *)
(* null pointer.  Every operation of the factory is one action; the record *)
(* ret holds what the last call returned and, in order, the callbacks and  *)
(* transports it invoked.                                                  *)
(***************************************************************************)
EXTENDS Integers, Sequences, FiniteSets, TLC

VARIABLES
    factory,                      \* [address, sizeof_pointer] of the SResourceFactory
    m_Resources,                  \* name hash -> SResourceDescriptor
    m_ResourceToHash,             \* resource address -> name hash
    m_ResourceHashToFilename,     \* name hash -> canonical path (reload support)
    m_ResourceReloadedCallbacks,  \* sequence of ResourceReloadedCallbackPair
    m_ReloadSupport,              \* the two members above are non-null
    m_ResourceTypes,              \* the first m_ResourceTypesCount entries
    m_HttpClient,                 \* TRUE: an HTTP client was constructed
    m_HttpServer,                 \* TRUE: the embedded HTTP server was started
    m_Flags,                      \* params->m_Flags as NewFactory leaves them
    m_BuiltinsArchive,            \* [null, entries]
    m_StreamBuffer,               \* m_StreamBufferSize + 1 bytes
    m_StreamBufferSize,
    m_HttpContentLength,
    m_HttpTotalBytesStreamed,
    m_HttpStatus,
    m_HttpFactoryResult,
    ret,                          \* outcome of the last call; of a Get that created a
                                  \* descriptor also `before`, the life of the hash until then
    life,                         \* per name hash: calls counted over the current lifetime
    registered                    \* the observers registered and not unregistered since

factoryVars == <<m_Resources, m_ResourceToHash, m_ResourceHashToFilename>>
observerVars == <<m_ResourceReloadedCallbacks, registered>>
configVars == <<factory, m_ReloadSupport, m_HttpClient, m_HttpServer, m_Flags,
                m_BuiltinsArchive, m_StreamBufferSize>>
loadVars == <<m_StreamBuffer, m_HttpContentLength, m_HttpTotalBytesStreamed,
              m_HttpStatus, m_HttpFactoryResult>>
vars == <<factory, m_Resources, m_ResourceToHash, m_ResourceHashToFilename,
          m_ResourceReloadedCallbacks, m_ReloadSupport, m_ResourceTypes,
          m_HttpClient, m_HttpServer, m_Flags, m_BuiltinsArchive, m_StreamBuffer,
          m_StreamBufferSize,
          m_HttpContentLength, m_HttpTotalBytesStreamed, m_HttpStatus,
          m_HttpFactoryResult, ret, life, registered>>

----------------------------------------------------------------------------
(* Program constants *)

RESOURCE_PATH_MAX == 1024
MAX_RESOURCE_TYPES == 128
MAX_CALLBACKS == 16

(* Bounds of the model *)

\* A name is acquired at most MaxRef times between its creation and its
\* destruction.
MaxRef == 2
\* The handlers' create allocates resources at the addresses 1..MaxAddr.
MaxAddr == 2
\* Observers are registered only while the list is shorter than MaxObservers.
MaxObservers == 3
\* Files and archive entries have 0..MaxData bytes.
MaxData == 5
\* A GET delivers at most MaxChunks chunks of content.
MaxChunks == 2
\* The longest of the short names GetCanonicalPath is given.
MaxPath == 4

----------------------------------------------------------------------------
(* Generic helpers *)

Min(a, b) == IF a <= b THEN a ELSE b

EmptyTable == [k \in {} |-> 0]

\* dmHashTable::Put, Erase and Get (Get returns null for an absent key).
Put(t, k, v) == [x \in (DOMAIN t) \cup {k} |-> IF x = k THEN v ELSE t[x]]
Erase(t, k) == [x \in (DOMAIN t) \ {k} |-> t[x]]
Has(t, k) == k \in DOMAIN t

\* The value of a variable the constructor leaves unwritten: outside the
\* range of every value the code writes, and never read before it is written.
Indeterminate == -9
IndeterminateResult == "INDETERMINATE"

----------------------------------------------------------------------------
(* Strings *)

\* strrchr(s, c): the 1-based index of the last c in s, 0 when there is none.
RECURSIVE StrRChr(_, _)
StrRChr(s, c) ==
    IF s = <<>> THEN 0
    ELSE IF s[Len(s)] = c THEN Len(s)
    ELSE StrRChr(SubSeq(s, 1, Len(s) - 1), c)

\* DM_SNPRINTF(buf, RESOURCE_PATH_MAX, "%s/%s", base_dir, relative_dir):
\* the concatenation, cut to RESOURCE_PATH_MAX - 1 characters.
Snprintf(base_dir, relative_dir) ==
    LET full == base_dir \o <<"/">> \o relative_dir
    IN  SubSeq(full, 1, Min(Len(full), RESOURCE_PATH_MAX - 1))

\* Mutant of Collapse: every character is copied.
CollapseNot(buf) == buf

\* The copy loop of GetCanonicalPath: the character c at each source index
\* is kept unless it is a '/' and last_c, the source character before it, is
\* a '/' too; last_c starts as 0.
Collapse(buf) ==
    LET At(i) == [c |-> buf[i], last_c |-> IF i = 1 THEN "" ELSE buf[i - 1]]
        Kept(at) == at.c # "/" \/ (at.c = "/" /\ at.last_c # "/")
        kept == SelectSeq([i \in DOMAIN buf |-> At(i)], Kept)
    IN  [i \in DOMAIN kept |-> kept[i].c]

\* Mutant of GetCanonicalPath: the first segment '.' of the path is resolved.
GetCanonicalPathResolved(base_dir, relative_dir) ==
    LET path == Collapse(Snprintf(base_dir, relative_dir))
        dots == {i \in 1..(Len(path) - 2) :
                    path[i] = "/" /\ path[i + 1] = "." /\ path[i + 2] = "/"}
    IN  IF dots = {} THEN path
        ELSE LET first == CHOOSE i \in dots : \A j \in dots : i <= j
             IN  SubSeq(path, 1, first) \o SubSeq(path, first + 3, Len(path))

GetCanonicalPath(base_dir, relative_dir) ==
    Collapse(Snprintf(base_dir, relative_dir))

\* dmHashBuffer64 of a byte string: a 64-bit hash, taken to be free of
\* collisions on the paths in use; here the string read as a number in
\* base 9 with the digits 1..8.
CharCode(c) ==
    CASE c = "/" -> 1 [] c = "." -> 2 [] c = "a" -> 3 [] c = "b" -> 4
      [] c = "d" -> 5 [] c = "t" -> 6 [] c = "u" -> 7 [] OTHER -> 8

RECURSIVE dmHashBuffer64(_)
dmHashBuffer64(s) ==
    IF s = <<>> THEN 0
    ELSE dmHashBuffer64(SubSeq(s, 1, Len(s) - 1)) * 9 + CharCode(s[Len(s)])

\* m_UriParts.m_Path of the factory's URI.
BasePath == <<"/", "d">>

CanonicalPathHash(name) == dmHashBuffer64(GetCanonicalPath(BasePath, name))

----------------------------------------------------------------------------
(* Handler registry *)

\* FindResourceType: the index of the first entry with this extension, 0
\* (null) when there is none.
RECURSIVE FindFrom(_, _, _)
FindFrom(types, extension, i) ==
    IF i > Len(types) THEN 0
    ELSE IF types[i].m_Extension = extension THEN i
    ELSE FindFrom(types, extension, i + 1)

\* Mutant of FindResourceType: an extension that has no entry is given the
\* first one.
FindResourceTypeFirst(types, extension) ==
    IF FindFrom(types, extension, 1) = 0 /\ types # <<>> THEN 1
    ELSE FindFrom(types, extension, 1)

FindResourceType(types, extension) == FindFrom(types, extension, 1)

\* Mutant of RegisterTypeResult: a missing destroy function is let through.
RegisterTypeResultCreateOnly(types, extension, create_function, destroy_function) ==
    IF Len(types) = MAX_RESOURCE_TYPES THEN "FACTORY_RESULT_OUT_OF_RESOURCES"
    ELSE IF StrRChr(extension, ".") # 0 THEN "FACTORY_RESULT_INVAL"
    ELSE IF ~create_function THEN "FACTORY_RESULT_INVAL"
    ELSE IF FindResourceType(types, extension) # 0
         THEN "FACTORY_RESULT_ALREADY_REGISTERED"
    ELSE "FACTORY_RESULT_OK"

\* Mutant of RegisterTypeResult: the registry is not searched for the
\* extension.
RegisterTypeResultUnsearched(types, extension, create_function, destroy_function) ==
    IF Len(types) = MAX_RESOURCE_TYPES THEN "FACTORY_RESULT_OUT_OF_RESOURCES"
    ELSE IF StrRChr(extension, ".") # 0 THEN "FACTORY_RESULT_INVAL"
    ELSE IF ~create_function \/ ~destroy_function THEN "FACTORY_RESULT_INVAL"
    ELSE "FACTORY_RESULT_OK"

\* The result of RegisterType; the checks are made in the code's order.
RegisterTypeResult(types, extension, create_function, destroy_function) ==
    IF Len(types) = MAX_RESOURCE_TYPES THEN "FACTORY_RESULT_OUT_OF_RESOURCES"
    ELSE IF StrRChr(extension, ".") # 0 THEN "FACTORY_RESULT_INVAL"
    ELSE IF ~create_function \/ ~destroy_function THEN "FACTORY_RESULT_INVAL"
    ELSE IF FindResourceType(types, extension) # 0
         THEN "FACTORY_RESULT_ALREADY_REGISTERED"
    ELSE "FACTORY_RESULT_OK"

NoPair == [m_Callback |-> 0, m_UserData |-> 0]

\* One entry of ret.calls: a callback or transport the call invoked, what it
\* was invoked with and what it answered.
Call(what, pair, name, result) ==
    [call |-> what, pair |-> pair, name |-> name, result |-> result]

Ret(op, name, result, resource, calls) ==
    [op |-> op, name |-> name, result |-> result, resource |-> resource,
     calls |-> calls]

\* A failed assertion ends the process: no operation follows it.
Alive == ret.result # "ASSERTION_FAILED"

RegisterType(extension, context, create_function, destroy_function, recreate_function) ==
    /\ Alive
    /\ LET r == RegisterTypeResult(m_ResourceTypes, extension,
                                   create_function, destroy_function)
       IN  /\ m_ResourceTypes' =
                 IF r = "FACTORY_RESULT_OK"
                 THEN Append(m_ResourceTypes,
                             [m_Extension |-> extension,
                              m_Context |-> context,
                              m_CreateFunction |-> create_function,
                              m_DestroyFunction |-> destroy_function,
                              m_RecreateFunction |-> recreate_function])
                 ELSE m_ResourceTypes
           /\ ret' = Ret("RegisterType", extension, r, 0, <<>>)
    /\ UNCHANGED <<factoryVars, observerVars, configVars, loadVars, life>>

\* An address is a 64-bit number, written as its four digits in base 2^16,
\* the most significant first; a place is the address `new` returned for the
\* factory together with the size of a pointer in this build (with 4-byte
\* pointers the two upper digits of every address are 0).
Word == 65536
Place(address, sizeof_pointer) ==
    [address |-> address, sizeof_pointer |-> sizeof_pointer]

\* address + n in 64 bits, for 0 <= n < 2^31.
AddOffset(address, n) ==
    LET s4 == address[4] + n
        s3 == address[3] + s4 \div Word
        s2 == address[2] + s3 \div Word
        s1 == address[1] + s2 \div Word
    IN  <<s1 % Word, s2 % Word, s3 % Word, s4 % Word>>

\* (uint32_t) of an address, as the uintptr_t it is compared as.
Uint32(address) == <<0, 0, address[3], address[4]>>

\* &factory->m_ResourceTypes[i - 1]: four pointers precede the array in
\* SResourceFactory and an SResourceType is five pointers.
EntryAddress(i) ==
    AddOffset(factory.address,
              4 * factory.sizeof_pointer + (i - 1) * (5 * factory.sizeof_pointer))

\* GetTypeFromExtension: the address of the entry, cast to uint32_t; *type is
\* not written when there is no entry (<<>> here).
TypeFromExtension(types, extension) ==
    LET resource_type == FindResourceType(types, extension)
    IN  IF resource_type # 0
        THEN [result |-> "FACTORY_RESULT_OK", type |-> Uint32(EntryAddress(resource_type))]
        ELSE [result |-> "FACTORY_RESULT_UNKNOWN_RESOURCE_TYPE", type |-> <<>>]

\* The loop of GetExtensionFromType from entry i on: ((uintptr_t) rt) == type;
\* *extension is null (<<>> here) when no entry compares equal.
RECURSIVE ExtensionFrom(_, _, _)
ExtensionFrom(types, type, i) ==
    IF i > Len(types)
    THEN [result |-> "FACTORY_RESULT_UNKNOWN_RESOURCE_TYPE", extension |-> <<>>]
    ELSE IF EntryAddress(i) = type
    THEN [result |-> "FACTORY_RESULT_OK", extension |-> types[i].m_Extension]
    ELSE ExtensionFrom(types, type, i + 1)

ExtensionFromType(types, type) == ExtensionFrom(types, type, 1)

\* GetTypeFromExtension(factory, extension, &type)
GetTypeFromExtension(extension) ==
    /\ Alive
    /\ LET r == TypeFromExtension(m_ResourceTypes, extension)
       IN  ret' = Ret("GetTypeFromExtension", extension, r.result, 0, <<>>)
                  @@ [type |-> r.type]
    /\ UNCHANGED <<factoryVars, m_ResourceTypes, observerVars, configVars,
                   loadVars, life>>

\* GetExtensionFromType(factory, type, &extension)
GetExtensionFromType(type) ==
    /\ Alive
    /\ LET r == ExtensionFromType(m_ResourceTypes, type)
       IN  ret' = Ret("GetExtensionFromType", r.extension, r.result, 0, <<>>)
                  @@ [type |-> type]
    /\ UNCHANGED <<factoryVars, m_ResourceTypes, observerVars, configVars,
                   loadVars, life>>

----------------------------------------------------------------------------
(* Transport loader *)

\* memcpy(buf + off, data, Len(data)); buffers are indexed from 0 in the
\* code and from 1 here.
MemCpy(buf, off, data) ==
    [i \in 1..Len(buf) |->
        IF i > off /\ i <= off + Len(data) THEN data[i - off] ELSE buf[i]]

\* Mutant of NulTerminate: the byte is left as it is.
NulTerminateNot(buf, idx) == buf

\* buf[idx] = 0
NulTerminate(buf, idx) == [buf EXCEPT ![idx + 1] = 0]

\* The HTTP-load state the two client callbacks work on.
HttpState(cl, streamed, status, fres, buf) ==
    [m_HttpContentLength |-> cl, m_HttpTotalBytesStreamed |-> streamed,
     m_HttpStatus |-> status, m_HttpFactoryResult |-> fres,
     m_StreamBuffer |-> buf, asserted |-> FALSE]

\* HttpHeader: the status of every header line is kept, the value of a
\* Content-Length line (strtol, the value given as the number it parses to).
HttpHeader(h, status_code, key, value) ==
    [h EXCEPT !.m_HttpStatus = status_code,
              !.m_HttpContentLength =
                  IF key = "Content-Length" THEN value ELSE @]

\* Mutant of HttpContent: of a chunk that does not fit the space left, the
\* part that fits is kept.
HttpContentTruncating(h, buffer_size, content_data) ==
    IF ~(h.m_HttpTotalBytesStreamed <= buffer_size)
    THEN [h EXCEPT !.asserted = TRUE]
    ELSE IF buffer_size - h.m_HttpTotalBytesStreamed < Len(content_data)
    THEN [h EXCEPT !.m_HttpFactoryResult = "FACTORY_RESULT_STREAMBUFFER_TOO_SMALL",
                   !.m_StreamBuffer =
                       MemCpy(@, h.m_HttpTotalBytesStreamed,
                              SubSeq(content_data, 1,
                                     buffer_size - h.m_HttpTotalBytesStreamed)),
                   !.m_HttpTotalBytesStreamed = buffer_size]
    ELSE [h EXCEPT !.m_StreamBuffer =
                       MemCpy(@, h.m_HttpTotalBytesStreamed, content_data),
                   !.m_HttpTotalBytesStreamed = @ + Len(content_data)]

\* HttpContent: a chunk that does not fit the space left is dropped.
HttpContent(h, buffer_size, content_data) ==
    IF ~(h.m_HttpTotalBytesStreamed <= buffer_size)
    THEN [h EXCEPT !.asserted = TRUE]
    ELSE IF buffer_size - h.m_HttpTotalBytesStreamed < Len(content_data)
    THEN [h EXCEPT !.m_HttpFactoryResult = "FACTORY_RESULT_STREAMBUFFER_TOO_SMALL"]
    ELSE [h EXCEPT !.m_StreamBuffer =
                       MemCpy(@, h.m_HttpTotalBytesStreamed, content_data),
                   !.m_HttpTotalBytesStreamed = @ + Len(content_data)]

\* dmHttpClient::Get: the client calls back once per header line and once per
\* content chunk, in the order received.
RECURSIVE HttpCallbacks(_, _, _, _)
HttpCallbacks(h, buffer_size, events, i) ==
    IF i > Len(events) \/ h.asserted THEN h
    ELSE LET e == events[i]
         IN  HttpCallbacks(
                 IF e.type = "header"
                 THEN HttpHeader(h, e.status, e.key, e.value)
                 ELSE HttpContent(h, buffer_size, e.data),
                 buffer_size, events, i + 1)

LoadResult(result, size, h) == [result |-> result, size |-> size, http |-> h]

\* Mutant of LoadFromArchive: an entry is too large when file_size + 1 is
\* greater than the buffer size.
LoadFromArchiveExceeds(h, buffer_size, data) ==
    IF Len(data) + 1 > buffer_size
    THEN LoadResult("FACTORY_RESULT_STREAMBUFFER_TOO_SMALL", Indeterminate, h)
    ELSE LoadResult("FACTORY_RESULT_OK", Len(data),
                    [h EXCEPT !.m_StreamBuffer =
                         NulTerminate(MemCpy(@, 0, data), Len(data))])

\* Mutant of LoadFromArchive: the entry is not copied to the stream buffer.
LoadFromArchiveUncopied(h, buffer_size, data) ==
    IF Len(data) + 1 >= buffer_size
    THEN LoadResult("FACTORY_RESULT_STREAMBUFFER_TOO_SMALL", Indeterminate, h)
    ELSE LoadResult("FACTORY_RESULT_OK", Len(data),
                    [h EXCEPT !.m_StreamBuffer = NulTerminate(@, Len(data))])

\* The archive branch on a hit.  The size check is the code's:
\* file_size + 1 >= m_StreamBufferSize.
LoadFromArchive(h, buffer_size, data) ==
    IF Len(data) + 1 >= buffer_size
    THEN LoadResult("FACTORY_RESULT_STREAMBUFFER_TOO_SMALL", Indeterminate, h)
    ELSE LoadResult("FACTORY_RESULT_OK", Len(data),
                    [h EXCEPT !.m_StreamBuffer =
                         NulTerminate(MemCpy(@, 0, data), Len(data))])

\* Mutant of LoadFromHttp: a dropped chunk is reported before a failed GET.
LoadFromHttpDroppedFirst(h0, buffer_size, get) ==
    LET h == HttpCallbacks(
                 HttpState(0, 0, -1, "FACTORY_RESULT_OK", h0.m_StreamBuffer),
                 buffer_size, get.events, 1)
    IN  IF h.asserted
        THEN LoadResult("ASSERTION_FAILED", 0, h)
        ELSE IF h.m_HttpFactoryResult # "FACTORY_RESULT_OK"
        THEN LoadResult(h.m_HttpFactoryResult, 0, h)
        ELSE IF get.result # "RESULT_OK"
        THEN LoadResult(IF h.m_HttpStatus = 404
                        THEN "FACTORY_RESULT_RESOURCE_NOT_FOUND"
                        ELSE "FACTORY_RESULT_IO_ERROR", 0, h)
        ELSE LoadResult("FACTORY_RESULT_OK", h.m_HttpTotalBytesStreamed,
                        [h EXCEPT !.m_StreamBuffer =
                             NulTerminate(@, h.m_HttpTotalBytesStreamed)])

\* The HTTP branch: the state is reset, the GET runs the callbacks, and the
\* outcome is decided from the GET's result, the status and the state.
\* Mutant of LoadFromHttp: the content length, the status and the result of
\* the load before are not reset.
LoadFromHttpSticky(h0, buffer_size, get) ==
    LET h == HttpCallbacks(
                 HttpState(h0.m_HttpContentLength, 0, h0.m_HttpStatus,
                           h0.m_HttpFactoryResult, h0.m_StreamBuffer),
                 buffer_size, get.events, 1)
    IN  IF h.asserted
        THEN LoadResult("ASSERTION_FAILED", 0, h)
        ELSE IF get.result # "RESULT_OK"
        THEN LoadResult(IF h.m_HttpStatus = 404
                        THEN "FACTORY_RESULT_RESOURCE_NOT_FOUND"
                        ELSE "FACTORY_RESULT_IO_ERROR", 0, h)
        ELSE IF h.m_HttpFactoryResult # "FACTORY_RESULT_OK"
        THEN LoadResult(h.m_HttpFactoryResult, 0, h)
        ELSE LoadResult("FACTORY_RESULT_OK", h.m_HttpTotalBytesStreamed,
                        [h EXCEPT !.m_StreamBuffer =
                             NulTerminate(@, h.m_HttpTotalBytesStreamed)])

LoadFromHttp(h0, buffer_size, get) ==
    LET h == HttpCallbacks(
                 HttpState(0, 0, -1, "FACTORY_RESULT_OK", h0.m_StreamBuffer),
                 buffer_size, get.events, 1)
    IN  IF h.asserted
        THEN LoadResult("ASSERTION_FAILED", 0, h)
        ELSE IF get.result # "RESULT_OK"
        THEN LoadResult(IF h.m_HttpStatus = 404
                        THEN "FACTORY_RESULT_RESOURCE_NOT_FOUND"
                        ELSE "FACTORY_RESULT_IO_ERROR", 0, h)
        ELSE IF h.m_HttpFactoryResult # "FACTORY_RESULT_OK"
        THEN LoadResult(h.m_HttpFactoryResult, 0, h)
        ELSE LoadResult("FACTORY_RESULT_OK", h.m_HttpTotalBytesStreamed,
                        [h EXCEPT !.m_StreamBuffer =
                             NulTerminate(@, h.m_HttpTotalBytesStreamed)])

\* Mutant of LoadFromFile: a file is too large when file_size + 1 is greater
\* than the buffer size.
LoadFromFileExceeds(h, buffer_size, file) ==
    IF ~file.exists
    THEN LoadResult("FACTORY_RESULT_RESOURCE_NOT_FOUND", Indeterminate, h)
    ELSE IF Len(file.data) + 1 > buffer_size
    THEN LoadResult("FACTORY_RESULT_STREAMBUFFER_TOO_SMALL", Len(file.data), h)
    ELSE LET buf == MemCpy(NulTerminate(h.m_StreamBuffer, Len(file.data)),
                           0, SubSeq(file.data, 1, file.nread))
             hb  == [h EXCEPT !.m_StreamBuffer = buf]
         IN  IF file.nread # Len(file.data)
             THEN LoadResult("FACTORY_RESULT_IO_ERROR", Len(file.data), hb)
             ELSE LoadResult("FACTORY_RESULT_OK", Len(file.data), hb)

\* The filesystem branch: file.exists (fopen succeeds), file.data (the
\* content) and file.nread (the bytes fread delivers).
LoadFromFile(h, buffer_size, file) ==
    IF ~file.exists
    THEN LoadResult("FACTORY_RESULT_RESOURCE_NOT_FOUND", Indeterminate, h)
    ELSE IF Len(file.data) + 1 >= buffer_size
    THEN LoadResult("FACTORY_RESULT_STREAMBUFFER_TOO_SMALL", Len(file.data), h)
    ELSE LET buf == MemCpy(NulTerminate(h.m_StreamBuffer, Len(file.data)),
                           0, SubSeq(file.data, 1, file.nread))
             hb  == [h EXCEPT !.m_StreamBuffer = buf]
         IN  IF file.nread # Len(file.data)
             THEN LoadResult("FACTORY_RESULT_IO_ERROR", Len(file.data), hb)
             ELSE LoadResult("FACTORY_RESULT_OK", Len(file.data), hb)

\* A load with the transports it consulted, in order, and their answers.
Loaded(load, misses, transport, name) ==
    [load EXCEPT !.http.asserted = FALSE] @@
    [calls |-> Append(misses, Call(transport, NoPair, name, load.result))]

\* The load with, in the entry of the transport that ended it, the size it
\* wrote to *resource_size and what the transport answered: the archive entry,
\* the GET or the file.
Answered(load, answer) ==
    [load EXCEPT !.calls[Len(load.calls)] =
                     @ @@ [size |-> load.size, answer |-> answer]]

\* Mutant of LoadResource: when the GET fails the file system is tried.
LoadResourceFallback(path, original_name, env) ==
    LET h0 == HttpState(m_HttpContentLength, m_HttpTotalBytesStreamed,
                        m_HttpStatus, m_HttpFactoryResult, m_StreamBuffer)
        buffer_size == m_StreamBufferSize
        hit == ~m_BuiltinsArchive.null
               /\ Has(m_BuiltinsArchive.entries, original_name)
        miss == IF m_BuiltinsArchive.null THEN <<>>
                ELSE <<Call("archive", NoPair, original_name, "RESULT_NOT_FOUND")>>
        get == LoadFromHttp(h0, buffer_size, env.get)
    IN  IF hit
        THEN Answered(Loaded(LoadFromArchive(h0, buffer_size,
                                    m_BuiltinsArchive.entries[original_name]),
                             <<>>, "archive", original_name),
                      m_BuiltinsArchive.entries[original_name])
        ELSE IF m_HttpClient /\ get.result = "FACTORY_RESULT_OK"
        THEN Answered(Loaded(get, miss, "http", path), env.get)
        ELSE Answered(Loaded(LoadFromFile(IF m_HttpClient THEN get.http ELSE h0,
                                          buffer_size, env.file),
                             IF m_HttpClient
                             THEN Append(miss, Call("http", NoPair, path, get.result))
                             ELSE miss,
                             "file", path), env.file)

\* LoadResource(factory, path, original_name, &resource_size) in the
\* environment env = [get, file]: what the HTTP server and the filesystem
\* answer during this call.
LoadResource(path, original_name, env) ==
    LET h0 == HttpState(m_HttpContentLength, m_HttpTotalBytesStreamed,
                        m_HttpStatus, m_HttpFactoryResult, m_StreamBuffer)
        buffer_size == m_StreamBufferSize
        hit == ~m_BuiltinsArchive.null
               /\ Has(m_BuiltinsArchive.entries, original_name)
        miss == IF m_BuiltinsArchive.null THEN <<>>
                ELSE <<Call("archive", NoPair, original_name, "RESULT_NOT_FOUND")>>
    IN  IF hit
        THEN Answered(Loaded(LoadFromArchive(h0, buffer_size,
                                    m_BuiltinsArchive.entries[original_name]),
                             <<>>, "archive", original_name),
                      m_BuiltinsArchive.entries[original_name])
        ELSE IF m_HttpClient
        THEN Answered(Loaded(LoadFromHttp(h0, buffer_size, env.get),
                             miss, "http", path), env.get)
        ELSE Answered(Loaded(LoadFromFile(h0, buffer_size, env.file),
                             miss, "file", path), env.file)

\* The stream buffer and the HTTP-load state after a load.
LoadVarsAre(h) ==
    /\ m_StreamBuffer' = h.m_StreamBuffer
    /\ m_HttpContentLength' = h.m_HttpContentLength
    /\ m_HttpTotalBytesStreamed' = h.m_HttpTotalBytesStreamed
    /\ m_HttpStatus' = h.m_HttpStatus
    /\ m_HttpFactoryResult' = h.m_HttpFactoryResult

----------------------------------------------------------------------------
(* Acquire and release *)

\* The number of entries of calls that are calls of what.
Count(calls, what) == Cardinality({i \in DOMAIN calls : calls[i].call = what})

NoLife == [acquired |-> 0, released |-> 0, created |-> 0, destroyed |-> 0, first |-> 0]
LifeOf(hash) == IF Has(life, hash) THEN life[hash] ELSE NoLife

\* Mutant of NewDescriptor: the count takes up where the earlier lifetime of
\* the name left off.
NewDescriptorResumed(hash, resource_type, resource) ==
    [m_NameHash |-> hash, m_Resource |-> resource,
     m_ResourceType |-> resource_type, m_ReferenceCount |-> LifeOf(hash).acquired + 1]

\* The descriptor Get builds on a miss (tmp_resource) once create has set
\* m_Resource; m_ResourceType is the index of the handler entry.
NewDescriptor(hash, resource_type, resource) ==
    [m_NameHash |-> hash, m_Resource |-> resource,
     m_ResourceType |-> resource_type, m_ReferenceCount |-> 1]

\* Mutant of Referenced: the count goes up by two.
ReferencedTwice(rd) == [rd EXCEPT !.m_ReferenceCount = @ + 2]

\* Get on a hit: rd->m_ReferenceCount++
Referenced(rd) == [rd EXCEPT !.m_ReferenceCount = @ + 1]

\* Mutant of Dereferenced: the count is left as it is.
DereferencedNot(rd) == rd

\* Release: rd->m_ReferenceCount--
Dereferenced(rd) == [rd EXCEPT !.m_ReferenceCount = @ - 1]

Tables(resources, to_hash, filenames) ==
    [m_Resources |-> resources, m_ResourceToHash |-> to_hash,
     m_ResourceHashToFilename |-> filenames]

\* Mutant of Interned: the Put into m_ResourceToHash is missing.
InternedWithoutAddress(hash, rd, canonical_path) ==
    Tables(Put(m_Resources, hash, rd),
           m_ResourceToHash,
           IF m_ReloadSupport
           THEN Put(m_ResourceHashToFilename, hash, canonical_path)
           ELSE m_ResourceHashToFilename)

\* Mutant of Interned: the filename is not stored.
InternedWithoutFilename(hash, rd, canonical_path) ==
    Tables(Put(m_Resources, hash, rd),
           Put(m_ResourceToHash, rd.m_Resource, hash),
           m_ResourceHashToFilename)

\* Mutant of Interned: the filename is stored whether or not the factory
\* has reload support.
InternedWithFilename(hash, rd, canonical_path) ==
    Tables(Put(m_Resources, hash, rd),
           Put(m_ResourceToHash, rd.m_Resource, hash),
           Put(m_ResourceHashToFilename, hash, canonical_path))

\* The three Put of Get after a successful create.
Interned(hash, rd, canonical_path) ==
    Tables(Put(m_Resources, hash, rd),
           Put(m_ResourceToHash, rd.m_Resource, hash),
           IF m_ReloadSupport
           THEN Put(m_ResourceHashToFilename, hash, canonical_path)
           ELSE m_ResourceHashToFilename)

\* Mutant of Removed: the address stays in m_ResourceToHash.
RemovedKeepsAddress(hash, resource) ==
    Tables(Erase(m_Resources, hash),
           m_ResourceToHash,
           IF m_ReloadSupport
           THEN Erase(m_ResourceHashToFilename, hash)
           ELSE m_ResourceHashToFilename)

\* The three Erase of Release once the reference count is 0.
Removed(hash, resource) ==
    Tables(Erase(m_Resources, hash),
           Erase(m_ResourceToHash, resource),
           IF m_ReloadSupport
           THEN Erase(m_ResourceHashToFilename, hash)
           ELSE m_ResourceHashToFilename)

\* Mutant of AtDestroy: destroy is called once the entries are erased.
AtDestroyErased(hash, resource) == Removed(hash, resource)

\* The tables at the moment Release calls the handler's destroy: the count
\* has been written back, no entry has been erased yet.
AtDestroy(hash, resource) ==
    Tables([m_Resources EXCEPT ![hash] = Dereferenced(@)], m_ResourceToHash,
           m_ResourceHashToFilename)

TablesAre(t) ==
    /\ m_Resources' = t.m_Resources
    /\ m_ResourceToHash' = t.m_ResourceToHash
    /\ m_ResourceHashToFilename' = t.m_ResourceHashToFilename

\* Mutant of HitCalls: the handler's create is called on a hit too.
HitCallsCreate(name) == <<Call("create", NoPair, name, "CREATE_RESULT_OK")>>

\* The calls a Get that found the name interned makes: none.
HitCalls(name) == <<>>

GetHit(name, hash) ==
    LET rd == m_Resources[hash]
        calls == HitCalls(name)
    IN  IF ~Has(m_ResourceToHash, rd.m_Resource)
        THEN /\ ret' = Ret("Get", name, "ASSERTION_FAILED", 0, <<>>)
             /\ UNCHANGED <<factoryVars, loadVars, life>>
        ELSE /\ m_Resources' = [m_Resources EXCEPT ![hash] = Referenced(rd)]
             /\ ret' = Ret("Get", name, "FACTORY_RESULT_OK", rd.m_Resource, calls)
             /\ life' = [life EXCEPT ![hash].acquired = @ + 1,
                                     ![hash].created = @ + Count(calls, "create")]
             /\ UNCHANGED <<m_ResourceToHash, m_ResourceHashToFilename, loadVars>>

\* Mutant of CreateFailure: the result of create is handed on under the name
\* of the factory result that corresponds to it.
CreateFailureMapped(create_error) ==
    CASE create_error = "CREATE_RESULT_OUT_OF_MEMORY" -> "FACTORY_RESULT_OUT_OF_MEMORY"
      [] create_error = "CREATE_RESULT_FORMAT_ERROR" -> "FACTORY_RESULT_FORMAT_ERROR"
      [] create_error = "CREATE_RESULT_CONSTANT_ERROR" -> "FACTORY_RESULT_CONSTANT_ERROR"
      [] OTHER -> "FACTORY_RESULT_UNKNOWN"

\* What Get returns when create did not return CREATE_RESULT_OK.
CreateFailure(create_error) == "FACTORY_RESULT_UNKNOWN"

GetCreate(name, hash, canonical_path, resource_type, load, create_errors, addresses) ==
    \E create_error \in create_errors :
      LET calls == Append(load.calls, Call("create", NoPair, name, create_error))
      IN  IF create_error # "CREATE_RESULT_OK"
          THEN /\ ret' = Ret("Get", name, CreateFailure(create_error), 0, calls)
               /\ UNCHANGED <<factoryVars, life>>
          ELSE \E resource \in addresses :
                 IF resource = 0
                 THEN /\ ret' = Ret("Get", name, "ASSERTION_FAILED", 0, calls)
                      /\ UNCHANGED <<factoryVars, life>>
                 ELSE /\ TablesAre(Interned(hash,
                                       NewDescriptor(hash, resource_type, resource),
                                       canonical_path))
                      /\ ret' = Ret("Get", name, "FACTORY_RESULT_OK", resource, calls)
                                  @@ [before |-> LifeOf(hash)]
                      /\ life' = Put(life, hash,
                                     [acquired |-> 1, released |-> 0,
                                      created |-> Count(calls, "create"),
                                      destroyed |-> 0, first |-> resource])

GetLoad(name, hash, canonical_path, resource_type, envs, create_errors, addresses) ==
    \E env \in envs :
      LET load == LoadResource(canonical_path, name, env)
      IN  /\ LoadVarsAre(load.http)
          /\ IF load.result # "FACTORY_RESULT_OK"
             THEN /\ ret' = Ret("Get", name, load.result, 0, load.calls)
                  /\ UNCHANGED <<factoryVars, life>>
             ELSE GetCreate(name, hash, canonical_path, resource_type, load,
                            create_errors, addresses)

GetMiss(name, hash, canonical_path, envs, create_errors, addresses) ==
    LET dot == StrRChr(name, ".")
        ext == SubSeq(name, dot + 1, Len(name))
        resource_type == FindResourceType(m_ResourceTypes, ext)
    IN  IF dot = 0
        THEN /\ ret' = Ret("Get", name, "FACTORY_RESULT_MISSING_FILE_EXTENSION", 0, <<>>)
             /\ UNCHANGED <<factoryVars, loadVars, life>>
        ELSE IF resource_type = 0
        THEN /\ ret' = Ret("Get", name, "FACTORY_RESULT_UNKNOWN_RESOURCE_TYPE", 0, <<>>)
             /\ UNCHANGED <<factoryVars, loadVars, life>>
        ELSE GetLoad(name, hash, canonical_path, resource_type, envs,
                     create_errors, addresses)

\* Get(factory, name, &resource).  envs is what the transports may answer if
\* they are asked; create_errors and addresses are what the handler's create
\* may return and the addresses it may install if it is called.
Get(name, envs, create_errors, addresses) ==
    /\ Alive
    /\ LET canonical_path == GetCanonicalPath(BasePath, name)
           canonical_path_hash == dmHashBuffer64(canonical_path)
       IN  IF Has(m_Resources, canonical_path_hash)
           THEN GetHit(name, canonical_path_hash)
           ELSE GetMiss(name, canonical_path_hash, canonical_path, envs,
                        create_errors, addresses)
    /\ UNCHANGED <<m_ResourceTypes, observerVars, configVars>>

\* The part of Release taken when the reference count has reached 0: the
\* handler's destroy, then the erasures; the filename is looked up before
\* it is erased and asserted after.
ReleaseLast(hash, resource) ==
    LET calls == <<Call("destroy", NoPair, <<>>, "void")
                       @@ [tables |-> AtDestroy(hash, resource)]>>
        found == Has(m_ResourceHashToFilename, hash)
    IN  /\ TablesAre(Removed(hash, resource))
        /\ ret' = Ret("Release", <<>>,
                      IF m_ReloadSupport /\ ~found THEN "ASSERTION_FAILED" ELSE "void",
                      resource, calls)
        /\ life' = [life EXCEPT ![hash].released = @ + 1,
                                ![hash].destroyed = @ + Count(calls, "destroy")]

\* Mutant of Release: an address that is no key of m_ResourceToHash is
\* passed over in silence.
ReleaseUnchecked(resource) ==
    /\ Alive
    /\ IF ~Has(m_ResourceToHash, resource)
       THEN /\ ret' = Ret("Release", <<>>, "void", resource, <<>>)
            /\ UNCHANGED <<factoryVars, life>>
       ELSE LET hash == m_ResourceToHash[resource]
                rd == Dereferenced(m_Resources[hash])
            IN  IF rd.m_ReferenceCount = 0
                THEN ReleaseLast(hash, resource)
                ELSE /\ m_Resources' = [m_Resources EXCEPT ![hash] = rd]
                     /\ ret' = Ret("Release", <<>>, "void", resource, <<>>)
                     /\ life' = [life EXCEPT ![hash].released = @ + 1]
                     /\ UNCHANGED <<m_ResourceToHash, m_ResourceHashToFilename>>
    /\ UNCHANGED <<m_ResourceTypes, observerVars, configVars, loadVars>>

\* Release(factory, resource)
Release(resource) ==
    /\ Alive
    /\ IF \/ ~Has(m_ResourceToHash, resource)
          \/ ~Has(m_Resources, m_ResourceToHash[resource])
          \/ ~(m_Resources[m_ResourceToHash[resource]].m_ReferenceCount > 0)
       THEN /\ ret' = Ret("Release", <<>>, "ASSERTION_FAILED", resource, <<>>)
            /\ UNCHANGED <<factoryVars, life>>
       ELSE LET hash == m_ResourceToHash[resource]
                rd == Dereferenced(m_Resources[hash])
            IN  IF rd.m_ReferenceCount = 0
                THEN ReleaseLast(hash, resource)
                ELSE /\ m_Resources' = [m_Resources EXCEPT ![hash] = rd]
                     /\ ret' = Ret("Release", <<>>, "void", resource, <<>>)
                     /\ life' = [life EXCEPT ![hash].released = @ + 1]
                     /\ UNCHANGED <<m_ResourceToHash, m_ResourceHashToFilename>>
    /\ UNCHANGED <<m_ResourceTypes, observerVars, configVars, loadVars>>

----------------------------------------------------------------------------
(* Reload and its observers *)

\* The switch of ReloadResource on the result of recreate.
ReloadFailure(create_result) ==
    CASE create_result = "CREATE_RESULT_OUT_OF_MEMORY" -> "RELOAD_RESULT_OUT_OF_MEMORY"
      [] create_result = "CREATE_RESULT_FORMAT_ERROR" -> "RELOAD_RESULT_FORMAT_ERROR"
      [] create_result = "CREATE_RESULT_CONSTANT_ERROR" -> "RELOAD_RESULT_CONSTANT_ERROR"
      [] create_result = "CREATE_RESULT_UNKNOWN" -> "RELOAD_RESULT_UNKNOWN"
      [] OTHER -> "RELOAD_RESULT_UNKNOWN"

\* The loop over m_ResourceReloadedCallbacks after a successful recreate:
\* one call per pair, from index 0 up.
Notifications(callbacks, name) ==
    [i \in 1..Len(callbacks) |-> Call("notify", callbacks[i], name, "void")]

\* Mutant of AfterRecreate: the observers are notified whatever recreate
\* returned.
AfterRecreateAlways(create_result, name) ==
    IF m_ReloadSupport
    THEN Notifications(m_ResourceReloadedCallbacks, name)
    ELSE <<>>

\* The calls ReloadResource makes once recreate has returned create_result.
AfterRecreate(create_result, name) ==
    IF create_result = "CREATE_RESULT_OK" /\ m_ReloadSupport
    THEN Notifications(m_ResourceReloadedCallbacks, name)
    ELSE <<>>

\* Mutant of Recreated: the resource is allocated anew at the next address.
RecreatedElsewhere(rd) == [rd EXCEPT !.m_Resource = @ + 1]

\* Mutant of Recreated: a reload counts as a reference.
RecreatedReferenced(rd) == [rd EXCEPT !.m_ReferenceCount = @ + 1]

\* The descriptor after the handler's recreate was handed it: recreate works
\* on the resource in place and leaves the descriptor as it was.
Recreated(rd) == rd

\* The part of ReloadResource after a successful load.
ReloadRecreate(name, rd, load, create_results) ==
    \E create_result \in create_results :
      LET calls == Append(load.calls, Call("recreate", NoPair, name, create_result))
      IN  /\ m_Resources' = [m_Resources EXCEPT ![rd.m_NameHash] = Recreated(rd)]
          /\ ret' = Ret("ReloadResource", name,
                     IF create_result = "CREATE_RESULT_OK"
                     THEN "RELOAD_RESULT_OK" ELSE ReloadFailure(create_result),
                     rd.m_Resource, calls \o AfterRecreate(create_result, name))

\* The part of ReloadResource after the lookup found rd and its handler has
\* a recreate function.
ReloadLoad(name, rd, envs, create_results) ==
    \E env \in envs :
      LET load == LoadResource(GetCanonicalPath(BasePath, name), name, env)
      IN  /\ LoadVarsAre(load.http)
          /\ IF load.result # "FACTORY_RESULT_OK"
             THEN /\ ret' = Ret("ReloadResource", name,
                                IF load.result = "ASSERTION_FAILED"
                                THEN "ASSERTION_FAILED"
                                ELSE "RELOAD_RESULT_LOAD_ERROR",
                                rd.m_Resource, load.calls)
                  /\ UNCHANGED m_Resources
             ELSE ReloadRecreate(name, rd, load, create_results)

\* Mutant of ReloadPrecondition: the recreate function is not looked at.
ReloadPreconditionFound(hash) ==
    IF ~Has(m_Resources, hash) THEN "RELOAD_RESULT_NOT_FOUND" ELSE ""

\* The result of ReloadResource when it returns before loading, "" when it
\* goes on to load.
ReloadPrecondition(hash) ==
    IF ~Has(m_Resources, hash) THEN "RELOAD_RESULT_NOT_FOUND"
    ELSE IF ~m_ResourceTypes[m_Resources[hash].m_ResourceType].m_RecreateFunction
    THEN "RELOAD_RESULT_NOT_SUPPORTED"
    ELSE ""

\* ReloadResource(factory, name, &out_descriptor); ret.resource is the
\* m_Resource of *out_descriptor, 0 when that is null.  envs is what the
\* transports may answer, create_results what recreate may return.
ReloadResource(name, envs, create_results) ==
    /\ Alive
    /\ LET hash == CanonicalPathHash(name)
           early == ReloadPrecondition(hash)
       IN  IF early # ""
           THEN /\ ret' = Ret("ReloadResource", name, early,
                              IF Has(m_Resources, hash)
                              THEN m_Resources[hash].m_Resource ELSE 0, <<>>)
                /\ UNCHANGED <<m_Resources, loadVars>>
           ELSE ReloadLoad(name, m_Resources[hash], envs, create_results)
    /\ UNCHANGED <<m_ResourceToHash, m_ResourceHashToFilename, m_ResourceTypes,
                   observerVars, configVars, life>>

\* RegisterResourceReloadedCallback: pushed unless the array is full.
\* GetDescriptor(factory, name, &descriptor): ret.descriptor is what is
\* copied to *descriptor, which is left alone when the name is not interned.
GetDescriptor(name) ==
    /\ Alive
    /\ LET canonical_path_hash == dmHashBuffer64(GetCanonicalPath(BasePath, name))
       IN  ret' = IF Has(m_Resources, canonical_path_hash)
                  THEN Ret("GetDescriptor", name, "FACTORY_RESULT_OK",
                           m_Resources[canonical_path_hash].m_Resource, <<>>)
                       @@ [descriptor |-> m_Resources[canonical_path_hash]]
                  ELSE Ret("GetDescriptor", name, "FACTORY_RESULT_NOT_LOADED", 0, <<>>)
    /\ UNCHANGED <<factoryVars, observerVars, m_ResourceTypes, configVars, loadVars, life>>

\* Mutant of Full: the array never reports that it is full.
FullNever(callbacks) == FALSE

\* dmArray::Full() of the array NewFactory gave the capacity MAX_CALLBACKS.
Full(callbacks) == ~(Len(callbacks) < MAX_CALLBACKS)

RegisterResourceReloadedCallback(callback, user_data) ==
    /\ Alive
    /\ m_ResourceReloadedCallbacks' =
         IF m_ReloadSupport /\ ~Full(m_ResourceReloadedCallbacks)
         THEN Append(m_ResourceReloadedCallbacks,
                     [m_Callback |-> callback, m_UserData |-> user_data])
         ELSE m_ResourceReloadedCallbacks
    /\ registered' =
         IF Len(m_ResourceReloadedCallbacks') > Len(m_ResourceReloadedCallbacks)
         THEN Append(registered, [m_Callback |-> callback, m_UserData |-> user_data])
         ELSE registered
    /\ ret' = Ret("RegisterResourceReloadedCallback", <<>>, "void", 0,
                  IF ~m_ReloadSupport THEN <<>>
                  ELSE IF ~Full(m_ResourceReloadedCallbacks)
                  THEN <<Call("Push", [m_Callback |-> callback, m_UserData |-> user_data],
                              <<>>, "void")>>
                  ELSE <<Call("dmLogWarning", NoPair, <<>>, "void")>>)
    /\ UNCHANGED <<factoryVars, m_ResourceTypes, configVars, loadVars, life>>

\* dmArray::EraseSwap(i): the last element takes the place of element i.
EraseSwap(a, i) == SubSeq([a EXCEPT ![i] = a[Len(a)]], 1, Len(a) - 1)

\* Mutant of UnregisterFrom: the index moves on after an erasure too, so the
\* pair swapped into the slot is not looked at.
RECURSIVE UnregisterSkipping(_, _, _, _)
UnregisterSkipping(callbacks, i, callback, user_data) ==
    IF ~(i <= Len(callbacks)) THEN callbacks
    ELSE IF callbacks[i].m_Callback = callback /\ callbacks[i].m_UserData = user_data
    THEN UnregisterSkipping(EraseSwap(callbacks, i), i + 1, callback, user_data)
    ELSE UnregisterSkipping(callbacks, i + 1, callback, user_data)

\* Mutant of UnregisterFrom: the loop ends with the first erasure.
RECURSIVE UnregisterFirst(_, _, _, _)
UnregisterFirst(callbacks, i, callback, user_data) ==
    IF ~(i <= Len(callbacks)) THEN callbacks
    ELSE IF callbacks[i].m_Callback = callback /\ callbacks[i].m_UserData = user_data
    THEN EraseSwap(callbacks, i)
    ELSE UnregisterFirst(callbacks, i + 1, callback, user_data)

\* The loop of UnregisterResourceReloadedCallback from index i on (i counts
\* from 1 here); the code's size is Len(callbacks) throughout.
RECURSIVE UnregisterFrom(_, _, _, _)
UnregisterFrom(callbacks, i, callback, user_data) ==
    IF ~(i <= Len(callbacks)) THEN callbacks
    ELSE IF callbacks[i].m_Callback = callback /\ callbacks[i].m_UserData = user_data
    THEN UnregisterFrom(EraseSwap(callbacks, i), i, callback, user_data)
    ELSE UnregisterFrom(callbacks, i + 1, callback, user_data)

\* The calls of EraseSwap the same loop makes, each with the index it erases
\* at (counted from 0 as the code counts).
RECURSIVE Erasures(_, _, _, _)
Erasures(callbacks, i, callback, user_data) ==
    IF ~(i <= Len(callbacks)) THEN <<>>
    ELSE IF callbacks[i].m_Callback = callback /\ callbacks[i].m_UserData = user_data
    THEN <<Call("EraseSwap", callbacks[i], <<>>, "void") @@ [index |-> i - 1]>>
         \o Erasures(EraseSwap(callbacks, i), i, callback, user_data)
    ELSE Erasures(callbacks, i + 1, callback, user_data)

\* The observers that remain registered, in the order of their registration,
\* once every pair equal to (callback, user_data) has been unregistered.
Unregistered(pairs, callback, user_data) ==
    LET Other(p) == ~(p.m_Callback = callback /\ p.m_UserData = user_data)
    IN  SelectSeq(pairs, Other)

UnregisterResourceReloadedCallback(callback, user_data) ==
    /\ Alive
    /\ m_ResourceReloadedCallbacks' =
         IF m_ReloadSupport
         THEN UnregisterFrom(m_ResourceReloadedCallbacks, 1, callback, user_data)
         ELSE m_ResourceReloadedCallbacks
    /\ registered' =
         IF m_ReloadSupport THEN Unregistered(registered, callback, user_data)
         ELSE registered
    /\ ret' = Ret("UnregisterResourceReloadedCallback", <<>>, "void", 0,
                  IF m_ReloadSupport
                  THEN Erasures(m_ResourceReloadedCallbacks, 1, callback, user_data)
                  ELSE <<>>)
         @@ [pair |-> [m_Callback |-> callback, m_UserData |-> user_data]]
    /\ UNCHANGED <<factoryVars, m_ResourceTypes, configVars, loadVars, life>>

----------------------------------------------------------------------------
(* The factory after NewFactory, and the calls made on it *)

Str(n) == [i \in 1..n |-> Indeterminate]

\* Mutant of ImpliedFlags: the flags are left as they were passed.
ImpliedFlagsNone(flags) == flags

\* params->m_Flags once NewFactory has looked at the HTTP server flag:
\* "http support implies this flag implicitly".
ImpliedFlags(flags) ==
    IF "RESOURCE_FACTORY_FLAGS_HTTP_SERVER" \in flags
    THEN flags \cup {"RESOURCE_FACTORY_FLAGS_RELOAD_SUPPORT"}
    ELSE flags

\* NewFactory with the given flags, URI scheme, archive and buffer size, when
\* `new SResourceFactory` allocates the factory at place and dmHttpServer::New,
\* if it is called, returns server_result.
NewFactoryWith(place, flags, server_result, http, archive, stream_buffer_size) ==
    /\ factory = place
    /\ m_Flags = ImpliedFlags(flags)
    /\ m_HttpServer = ("RESOURCE_FACTORY_FLAGS_HTTP_SERVER" \in flags
                          /\ server_result = "RESULT_OK")
    /\ m_Resources = EmptyTable
    /\ m_ResourceToHash = EmptyTable
    /\ m_ResourceHashToFilename = EmptyTable
    /\ m_ResourceReloadedCallbacks = <<>>
    /\ m_ReloadSupport = ("RESOURCE_FACTORY_FLAGS_RELOAD_SUPPORT" \in ImpliedFlags(flags))
    /\ m_ResourceTypes = <<>>
    /\ m_HttpClient = http
    /\ m_BuiltinsArchive = archive
    /\ m_StreamBufferSize = stream_buffer_size
    /\ m_StreamBuffer = Str(stream_buffer_size + 1)
    /\ m_HttpContentLength = Indeterminate
    /\ m_HttpTotalBytesStreamed = Indeterminate
    /\ m_HttpStatus = Indeterminate
    /\ m_HttpFactoryResult = IndeterminateResult
    /\ ret = Ret("NewFactory", <<>>, "void", 0,
                 IF "RESOURCE_FACTORY_FLAGS_HTTP_SERVER" \in flags
                 THEN <<Call("dmHttpServer::New", NoPair, <<>>, server_result)>>
                      \o (IF server_result # "RESULT_OK"
                          THEN <<Call("dmLogWarning", NoPair, <<>>, "void")>>
                          ELSE <<>>)
                 ELSE <<>>)
    /\ life = EmptyTable
    /\ registered = <<>>

\* NewFactory without the HTTP server flag: reload_support is the reload
\* support flag.
NewFactoryAt(place, reload_support, http, archive, stream_buffer_size) ==
    NewFactoryWith(place,
                   IF reload_support THEN {"RESOURCE_FACTORY_FLAGS_RELOAD_SUPPORT"} ELSE {},
                   "RESULT_OK", http, archive, stream_buffer_size)

\* NewFactory where the address of the factory is not made use of.
NewFactory(reload_support, http, archive, stream_buffer_size) ==
    NewFactoryAt(Place(<<0, 0, 2048, 0>>, 8), reload_support, http, archive,
                 stream_buffer_size)

NoArchive == [null |-> TRUE, entries |-> EmptyTable]

----------------------------------------------------------------------------
(* Inputs *)

Header(status, key, value) ==
    [type |-> "header", status |-> status, key |-> key, value |-> value, data |-> <<>>]
Content(status, data) ==
    [type |-> "content", status |-> status, key |-> "", value |-> 0, data |-> data]
HttpGet(result, events) == [result |-> result, events |-> events]
File(exists, data, nread) == [exists |-> exists, data |-> data, nread |-> nread]
Env(get, file) == [get |-> get, file |-> file]

\* The resource is there and fits.
EnvOk ==
    Env(HttpGet("RESULT_OK", <<Header(200, "Content-Length", 1), Content(200, <<1>>)>>),
        File(TRUE, <<1>>, 1))
\* The resource is not there.
EnvNotFound ==
    Env(HttpGet("RESULT_NOT_200_OK", <<Header(404, "Content-Length", 0)>>),
        File(FALSE, <<>>, 0))
\* The resource is larger than the stream buffer takes.
EnvTooLarge ==
    Env(HttpGet("RESULT_OK", <<Header(200, "Content-Length", 5),
                               Content(200, <<1, 1, 1>>), Content(200, <<1, 1>>)>>),
        File(TRUE, <<1, 1, 1>>, 3))
\* The transfer breaks off.
EnvIoError ==
    Env(HttpGet("RESULT_SOCKET_ERROR", <<>>), File(TRUE, <<1>>, 0))

Envs == {EnvOk, EnvNotFound, EnvTooLarge, EnvIoError}

CreateResults ==
    {"CREATE_RESULT_OK", "CREATE_RESULT_OUT_OF_MEMORY", "CREATE_RESULT_FORMAT_ERROR",
     "CREATE_RESULT_CONSTANT_ERROR", "CREATE_RESULT_UNKNOWN"}

NameAT == <<"a", ".", "t">>
NameSlashAT == <<"/", "a", ".", "t">>
NameBU == <<"b", ".", "u">>
NameA == <<"a">>
NameAX == <<"a", ".", "x">>
Names == {NameAT, NameSlashAT, NameBU, NameA, NameAX}

\* The calls of RegisterType: a type with and a type without a recreate
\* function, an extension with a dot and a missing create function.
TypeInput(extension, create_function, destroy_function, recreate_function) ==
    [extension |-> extension, create_function |-> create_function,
     destroy_function |-> destroy_function, recreate_function |-> recreate_function]
TypeInputs ==
    {TypeInput(<<"t">>, TRUE, TRUE, TRUE), TypeInput(<<"u">>, TRUE, TRUE, FALSE),
     TypeInput(<<"a", ".", "t">>, TRUE, TRUE, TRUE), TypeInput(<<"x">>, FALSE, TRUE, FALSE)}

Pair(callback, user_data) == [m_Callback |-> callback, m_UserData |-> user_data]
\* Three observers, two with the same callback and two with the same user data.
Pairs == {Pair(1, 1), Pair(1, 2), Pair(2, 1)}

Archives == {NoArchive, [null |-> FALSE, entries |-> Put(EmptyTable, NameAT, <<2>>)]}

StreamBufferSize == 4

\* A handler's create installs the address of a resource it has allocated:
\* an address of no live resource.
FreeAddresses == (1..MaxAddr) \ DOMAIN m_ResourceToHash

----------------------------------------------------------------------------------------------------------------------------------------
(* Specification: registration of types, acquire, release and reload over the
   filesystem, with and without reload support *)

Init ==
    \E reload_support \in BOOLEAN, http \in BOOLEAN :
        NewFactory(reload_support, http, NoArchive, StreamBufferSize)

DoRegisterType ==
    \E t \in TypeInputs :
        RegisterType(t.extension, 0, t.create_function, t.destroy_function, t.recreate_function)

DoGet ==
    \E name \in Names :
        /\ Has(m_Resources, CanonicalPathHash(name))
              => LifeOf(CanonicalPathHash(name)).acquired < MaxRef
        /\ Get(name, {EnvOk, EnvNotFound, EnvTooLarge},
               {"CREATE_RESULT_OK", "CREATE_RESULT_FORMAT_ERROR"}, FreeAddresses)

DoRelease ==
    \E resource \in DOMAIN m_ResourceToHash : Release(resource)

DoReloadResource ==
    \E name \in Names : ReloadResource(name, {EnvOk, EnvNotFound}, CreateResults)

Next ==
    \/ DoRegisterType
    \/ DoGet
    \/ DoRelease
    \/ DoReloadResource

Spec == Init /\ [][Next]_vars

----------------------------------------------------------------------------
(* Specification of reload: a factory with reload support over the
   filesystem, two types, one of them without a recreate function, the
   resources acquired once, observers registered and unregistered *)

InitReload == NewFactory(TRUE, FALSE, NoArchive, StreamBufferSize)

ReloadRegisterType ==
    \E t \in {TypeInput(<<"t">>, TRUE, TRUE, TRUE), TypeInput(<<"u">>, TRUE, TRUE, FALSE)} :
        RegisterType(t.extension, 0, t.create_function, t.destroy_function, t.recreate_function)

ReloadGet ==
    \E name \in {NameAT, NameBU} :
        /\ ~Has(m_Resources, CanonicalPathHash(name))
        /\ Get(name, {EnvOk}, {"CREATE_RESULT_OK"}, FreeAddresses)

ReloadReload ==
    \E name \in {NameAT, NameBU} : ReloadResource(name, Envs, CreateResults)

ReloadRegisterCallback ==
    \E pair \in Pairs :
        /\ Len(m_ResourceReloadedCallbacks) < MaxObservers
        /\ RegisterResourceReloadedCallback(pair.m_Callback, pair.m_UserData)

ReloadUnregisterCallback ==
    \E pair \in Pairs :
        UnregisterResourceReloadedCallback(pair.m_Callback, pair.m_UserData)

NextReload ==
    \/ ReloadRegisterType
    \/ ReloadGet
    \/ ReloadReload
    \/ ReloadRegisterCallback
    \/ ReloadUnregisterCallback

SpecReload == InitReload /\ [][NextReload]_vars

----------------------------------------------------------------------------
(* Specification of the loader: factories over the file system and over HTTP,
   with and without a builtins archive, and every kind of answer of the
   three transports to an acquire or a reload. *)

\* The content of a file, of an archive entry and of a chunk of a GET, of n
\* bytes each; no byte is NUL and the three differ in every byte.
FileData(n) == [i \in 1..n |-> i]
ArchiveData(n) == [i \in 1..n |-> 10 + i]
ChunkData(n) == [i \in 1..n |-> 20 + i]

\* The files: none, one of every length that is read whole, and one of every
\* length whose read ends a byte early.
Files ==
    {File(FALSE, <<>>, 0)}
    \cup {File(TRUE, FileData(n), n) : n \in 0..MaxData}
    \cup {File(TRUE, FileData(n), n - 1) : n \in 1..MaxData}

\* The archives: none, and one with an entry under "a.t" that is empty, that
\* leaves room in the stream buffer, that fills it but for one byte, or that
\* fills it.
LoadArchives ==
    {NoArchive}
    \cup {[null |-> FALSE, entries |-> Put(EmptyTable, NameAT, ArchiveData(n))] :
              n \in {0} \cup ((StreamBufferSize - 2)..StreamBufferSize)}

\* The sizes of the chunks of one GET, in the order received.
ChunkSizes == {1, 3, 5}
SizeSeqs == UNION {[1..n -> ChunkSizes] : n \in 0..MaxChunks}

RECURSIVE SumSeq(_)
SumSeq(q) == IF q = <<>> THEN 0 ELSE q[1] + SumSeq(Tail(q))

\* A response: two header lines, then the chunks.
Response(status, content_length, sizes) ==
    <<Header(status, "Server", 0), Header(status, "Content-Length", content_length)>>
    \o [j \in 1..Len(sizes) |-> Content(status, ChunkData(sizes[j]))]

\* What dmHttpClient::Get may do: deliver a 200 response and return RESULT_OK,
\* the Content-Length announced being the length of the content or not;
\* deliver a 404 or a 500 response and return RESULT_NOT_200_OK; or lose the
\* connection before or after a response.
HttpGets ==
    {HttpGet("RESULT_SOCKET_ERROR", <<>>)}
    \cup {HttpGet("RESULT_OK", Response(200, 2, sizes)) : sizes \in SizeSeqs}
    \cup {HttpGet("RESULT_OK", Response(200, SumSeq(sizes), sizes)) : sizes \in SizeSeqs}
    \cup {HttpGet(g[1], Response(g[2], SumSeq(sizes), sizes)) :
              g \in {<<"RESULT_NOT_200_OK", 404>>, <<"RESULT_NOT_200_OK", 500>>,
                     <<"RESULT_SOCKET_ERROR", 200>>},
              sizes \in {<<>>, <<1>>, <<5>>}}

\* The answers of the transports to one load: every answer of the transport
\* the factory was made for, the other transport holding a resource of one
\* byte all the while.
LoadEnvs(http) ==
    IF http
    THEN {Env(get, File(TRUE, FileData(1), 1)) : get \in HttpGets}
    ELSE {Env(HttpGet("RESULT_OK", Response(200, 1, <<1>>)), file) : file \in Files}

InitLoad ==
    \E http \in BOOLEAN, archive \in LoadArchives :
        NewFactory(FALSE, http, archive, StreamBufferSize)

LoadRegisterType == RegisterType(<<"t">>, 0, TRUE, TRUE, TRUE)

LoadGet ==
    \E name \in {NameAT, NameSlashAT} :
        /\ ~Has(m_Resources, CanonicalPathHash(name))
        /\ Get(name, LoadEnvs(m_HttpClient), {"CREATE_RESULT_OK"}, {1})

LoadRelease == \E resource \in DOMAIN m_ResourceToHash : Release(resource)

LoadReload == ReloadResource(NameAT, {EnvOk, EnvNotFound}, {"CREATE_RESULT_OK"})

NextLoad ==
    \/ LoadRegisterType
    \/ LoadGet
    \/ LoadRelease
    \/ LoadReload

SpecLoad == InitLoad /\ [][NextLoad]_vars

----------------------------------------------------------------------------
(* Specification of the handler registry: types are registered until the
   registry is full, in builds with pointers of 4 and of 8 bytes and with the
   factory at different addresses, and type ids are looked up both ways. *)

\* The extension "1", "2", ..., "10", ...: k in decimal.
Digits == <<"0", "1", "2", "3", "4", "5", "6", "7", "8", "9">>
RECURSIVE Ext(_)
Ext(k) ==
    IF k < 10 THEN <<Digits[k + 1]>>
    ELSE Append(Ext(k \div 10), Digits[(k % 10) + 1])

\* Where the factory may be: a 32-bit build; a 64-bit build with the factory
\* below 4 GiB, across the 4 GiB line, and high in the address space.
Places ==
    {Place(<<0, 0, 2048, 0>>, 4), Place(<<0, 0, 2048, 0>>, 8),
     Place(<<0, 0, 65535, 65000>>, 8), Place(<<0, 32767, 61440, 4096>>, 8)}

\* The extensions RegisterType is called with: the next unregistered one, the
\* one registered first, and one with a dot.
Extensions == {Ext(Len(m_ResourceTypes) + 1), Ext(1), <<"a", ".", "t">>}

InitRegistry ==
    \E place \in Places : NewFactoryAt(place, FALSE, FALSE, NoArchive, StreamBufferSize)

RegistryRegisterType ==
    \E extension \in Extensions, create_function \in BOOLEAN, destroy_function \in BOOLEAN :
        RegisterType(extension, 0, create_function, destroy_function, TRUE)

RegistryGetTypeFromExtension ==
    \E extension \in {Ext(1), Ext(Len(m_ResourceTypes)), Ext(Len(m_ResourceTypes) + 1)} :
        GetTypeFromExtension(extension)

RegistryGetExtensionFromType ==
    \E i \in {1, Len(m_ResourceTypes), Len(m_ResourceTypes) + 1} :
        \E type \in {Uint32(EntryAddress(i)), Uint32(AddOffset(EntryAddress(i), 1))} :
            GetExtensionFromType(type)

NextRegistry ==
    \/ RegistryRegisterType
    \/ RegistryGetTypeFromExtension
    \/ RegistryGetExtensionFromType

SpecRegistry == InitRegistry /\ [][NextRegistry]_vars

----------------------------------------------------------------------------
(* Specification of acquire and release by name: one type, names with one
   and with two canonical paths, names the registry has no type for, every
   result of create, releases of every address, live or not, and reloads and
   lookups of the descriptor in between *)

NameDotSlashAT == <<".", "/", "a", ".", "t">>
AcquireNames == {NameAT, NameSlashAT, NameDotSlashAT, NameA, NameAX}

InitAcquire ==
    \E reload_support \in BOOLEAN :
        NewFactory(reload_support, FALSE, NoArchive, StreamBufferSize)

AcquireRegisterType == RegisterType(<<"t">>, 0, TRUE, TRUE, TRUE)

\* The two spellings of the canonical path /d/a.t are acquired in turn: a.t
\* while the path is not interned, /a.t while it is.
AcquireGet ==
    \E name \in AcquireNames :
        /\ name = NameAT => ~Has(m_Resources, CanonicalPathHash(name))
        /\ name = NameSlashAT => Has(m_Resources, CanonicalPathHash(name))
        /\ Has(m_Resources, CanonicalPathHash(name))
              => LifeOf(CanonicalPathHash(name)).acquired < MaxRef
        /\ Get(name, {EnvOk, EnvNotFound}, CreateResults, FreeAddresses)

AcquireRelease ==
    \E resource \in 1..MaxAddr : Release(resource)

AcquireReload ==
    \E name \in {NameAT, NameDotSlashAT} :
        ReloadResource(name, {EnvOk, EnvNotFound},
                       {"CREATE_RESULT_OK", "CREATE_RESULT_FORMAT_ERROR"})

AcquireGetDescriptor ==
    \E name \in {NameSlashAT, NameDotSlashAT} : GetDescriptor(name)

NextAcquire ==
    \/ AcquireRegisterType
    \/ AcquireGet
    \/ AcquireRelease
    \/ AcquireReload
    \/ AcquireGetDescriptor

SpecAcquire == InitAcquire /\ [][NextAcquire]_vars

----------------------------------------------------------------------------
(* Specification of a factory made with neither the reload support nor the
   HTTP server flag: every call, the calls of the observers included *)

InitPlain ==
    \E http \in BOOLEAN :
        NewFactoryWith(Place(<<0, 0, 2048, 0>>, 8), {}, "RESULT_OK", http, NoArchive,
                       StreamBufferSize)

PlainRegisterType ==
    \E t \in {TypeInput(<<"t">>, TRUE, TRUE, TRUE), TypeInput(<<"u">>, TRUE, TRUE, FALSE)} :
        RegisterType(t.extension, 0, t.create_function, t.destroy_function, t.recreate_function)

PlainGet ==
    \E name \in {NameAT, NameBU} :
        /\ Has(m_Resources, CanonicalPathHash(name))
              => LifeOf(CanonicalPathHash(name)).acquired < MaxRef
        /\ Get(name, {EnvOk, EnvNotFound}, {"CREATE_RESULT_OK"}, FreeAddresses)

PlainRelease ==
    \E resource \in DOMAIN m_ResourceToHash : Release(resource)

PlainReload ==
    \E name \in {NameAT, NameBU} : ReloadResource(name, {EnvOk, EnvNotFound}, CreateResults)

PlainRegisterCallback ==
    \E pair \in Pairs : RegisterResourceReloadedCallback(pair.m_Callback, pair.m_UserData)

PlainUnregisterCallback ==
    \E pair \in Pairs : UnregisterResourceReloadedCallback(pair.m_Callback, pair.m_UserData)

NextPlain ==
    \/ PlainRegisterType
    \/ PlainGet
    \/ PlainRelease
    \/ PlainReload
    \/ PlainRegisterCallback
    \/ PlainUnregisterCallback

SpecPlain == InitPlain /\ [][NextPlain]_vars

----------------------------------------------------------------------------
(* Specification of the observer list: every combination of the two flags
   and of the outcome of starting the HTTP server, and registrations up to
   the capacity of the list and beyond *)

InitObservers ==
    \E flags \in SUBSET {"RESOURCE_FACTORY_FLAGS_RELOAD_SUPPORT",
                         "RESOURCE_FACTORY_FLAGS_HTTP_SERVER"},
       server_result \in {"RESULT_OK", "RESULT_SOCKET_ERROR"} :
        NewFactoryWith(Place(<<0, 0, 2048, 0>>, 8), flags, server_result, FALSE,
                       NoArchive, StreamBufferSize)

\* One observer registers any number of times, the other while it is not in
\* the list.
ObserversRegister ==
    \E pair \in {Pair(1, 1), Pair(1, 2)} :
        /\ pair = Pair(1, 2)
              => \A i \in DOMAIN m_ResourceReloadedCallbacks :
                     m_ResourceReloadedCallbacks[i] # pair
        /\ RegisterResourceReloadedCallback(pair.m_Callback, pair.m_UserData)

ObserversUnregister ==
    \E pair \in {Pair(1, 1), Pair(1, 2)} :
        UnregisterResourceReloadedCallback(pair.m_Callback, pair.m_UserData)

NextObservers ==
    \/ ObserversRegister
    \/ ObserversUnregister

SpecObservers == InitObservers /\ [][NextObservers]_vars

----------------------------------------------------------------------------
(* Specification of GetCanonicalPath as a function of its two arguments:
   every short string over '/', '.' and a letter, and strings about as long
   as the buffer *)

\* The strings over '/', '.' and 'a' of at most n characters.
RECURSIVE Strings(_)
Strings(n) ==
    IF n = 0 THEN {<<>>}
    ELSE LET shorter == Strings(n - 1)
         IN  shorter \cup {Append(s, c) : s \in shorter, c \in {"/", ".", "a"}}

\* Names about as long as the buffer, with and without a run of '/' in them.
LongNames ==
    {[i \in 1..n |-> IF i \in run THEN "/" ELSE "a"] :
        n \in (RESOURCE_PATH_MAX - MaxPath - 3)..RESOURCE_PATH_MAX, run \in {{}, {2, 3}}}

PathBases == {BasePath, <<"/", "d", "/">>, <<"/", "/", "d">>, <<>>}

\* A call of GetCanonicalPath(base_dir, relative_dir, buf) on its own.
CanonicalPath(base_dir, relative_dir) ==
    /\ Alive
    /\ ret' = Ret("GetCanonicalPath", relative_dir, "void", 0, <<>>)
                @@ [base_dir |-> base_dir, buf |-> GetCanonicalPath(base_dir, relative_dir)]
    /\ UNCHANGED <<factoryVars, observerVars, m_ResourceTypes, configVars, loadVars, life>>

InitPath == NewFactory(FALSE, FALSE, NoArchive, StreamBufferSize)

PathCanonical ==
    \E base_dir \in PathBases, relative_dir \in Strings(MaxPath) \cup LongNames :
        CanonicalPath(base_dir, relative_dir)

SpecPath == InitPath /\ [][PathCanonical]_vars

----------------------------------------------------------------------------
(* Claims *)

\* The addresses m_ResourceToHash maps to a name hash.
AddressesOf(hash) == {a \in DOMAIN m_ResourceToHash : m_ResourceToHash[a] = hash}

\* No table holds an entry for the name hash.
NoEntry(hash) ==
    /\ ~Has(m_Resources, hash)
    /\ AddressesOf(hash) = {}
    /\ ~Has(m_ResourceHashToFilename, hash)

\* C1. Intern identity: a name acquired N >= 1 times has exactly one call of
\* create; after N releases no table holds an entry for it and destroy was
\* called exactly once; before the N-th release destroy was not called and the
\* descriptor is interned.
C1_InternIdentity ==
    \A hash \in DOMAIN life :
        LET l == life[hash]
        IN  /\ l.acquired >= 1
            /\ l.released <= l.acquired
            /\ l.created = 1
            /\ l.released = l.acquired => NoEntry(hash) /\ l.destroyed = 1
            /\ l.released < l.acquired => Has(m_Resources, hash) /\ l.destroyed = 0

\* A name was acquired twice and released twice while another name is interned.
C1_Witness ==
    \E hash \in DOMAIN life :
        /\ life[hash].acquired = 2
        /\ life[hash].released = 2
        /\ DOMAIN m_Resources # {}

\* C2. Inverse-index bijection: m_Resources and m_ResourceToHash have the same
\* number of entries, every descriptor d is stored under d.m_NameHash with
\* m_ResourceToHash[d.m_Resource] = d.m_NameHash, every address leads back to
\* the descriptor holding it, and no assertion has failed.
C2_InverseIndexBijection ==
    /\ Cardinality(DOMAIN m_Resources) = Cardinality(DOMAIN m_ResourceToHash)
    /\ \A hash \in DOMAIN m_Resources :
           LET d == m_Resources[hash]
           IN  /\ d.m_NameHash = hash
               /\ Has(m_ResourceToHash, d.m_Resource)
               /\ m_ResourceToHash[d.m_Resource] = d.m_NameHash
    /\ \A a \in DOMAIN m_ResourceToHash :
           /\ Has(m_Resources, m_ResourceToHash[a])
           /\ m_Resources[m_ResourceToHash[a]].m_Resource = a
    /\ ret.result # "ASSERTION_FAILED"

\* Two resources are interned, one was released before, and the last call was
\* an acquire that found its name interned.
C2_Witness ==
    /\ Cardinality(DOMAIN m_Resources) = 2
    /\ ret.op = "Get" /\ ret.result = "FACTORY_RESULT_OK" /\ ret.calls = <<>>
    /\ \E hash \in DOMAIN life : life[hash].released > 0

\* The step is a call of op (every call sets ret.op to its own name).
Called(op) == ret'.op = op

\* C3. Every interned descriptor has a reference count above 0, and a Release
\* of a descriptor with count 1 removes it from m_Resources, m_ResourceToHash
\* and m_ResourceHashToFilename in that call, while a Release of a descriptor
\* with a higher count leaves it interned with the count one lower.
C3_Step ==
    /\ \A hash \in DOMAIN m_Resources' : m_Resources'[hash].m_ReferenceCount > 0
    /\ Called("Release") /\ Has(m_ResourceToHash, ret'.resource) =>
           LET hash == m_ResourceToHash[ret'.resource]
               count == m_Resources[hash].m_ReferenceCount
           IN  IF count = 1
               THEN /\ ~Has(m_Resources', hash)
                    /\ ~Has(m_ResourceToHash', ret'.resource)
                    /\ ~Has(m_ResourceHashToFilename', hash)
               ELSE /\ Has(m_Resources', hash)
                    /\ m_Resources'[hash].m_ReferenceCount = count - 1
                    /\ Has(m_ResourceToHash', ret'.resource)

C3_RefCountPositive == [][C3_Step]_vars

\* With reload support, a release has just destroyed a resource while another
\* one stays interned.
C3_Witness ==
    /\ m_ReloadSupport
    /\ ret.op = "Release" /\ Count(ret.calls, "destroy") = 1
    /\ ~Has(m_ResourceToHash, ret.resource)
    /\ DOMAIN m_Resources # {}

\* C4. Acquire on a hit: a Get of an interned name returns Ok and the address
\* the first acquire returned, raises that descriptor's reference count by
\* exactly 1, consults no transport, calls no handler, and changes nothing
\* else in the three tables, the stream buffer or the HTTP-load state.
C4_Step ==
    Called("Get") /\ Has(m_Resources, CanonicalPathHash(ret'.name)) =>
        LET hash == CanonicalPathHash(ret'.name)
        IN  /\ ret'.result = "FACTORY_RESULT_OK"
            /\ ret'.resource = life[hash].first
            /\ ret'.resource = m_Resources[hash].m_Resource
            /\ ret'.calls = <<>>
            /\ m_Resources' = [m_Resources EXCEPT ![hash].m_ReferenceCount = @ + 1]
            /\ UNCHANGED <<m_ResourceToHash, m_ResourceHashToFilename, loadVars>>

C4_AcquireHit == [][C4_Step]_vars

\* The last call was an acquire that found its name interned and brought the
\* reference count to 2 while another resource is interned.
C4_Witness ==
    /\ ret.op = "Get" /\ ret.result = "FACTORY_RESULT_OK" /\ ret.calls = <<>>
    /\ Has(m_Resources, CanonicalPathHash(ret.name))
    /\ m_Resources[CanonicalPathHash(ret.name)].m_ReferenceCount = 2
    /\ Cardinality(DOMAIN m_Resources) = 2

\* Every name hash with an entry in one table has its entries in all of them.
InAllOrNone ==
    \A hash \in DOMAIN m_Resources \cup DOMAIN m_ResourceHashToFilename
                \cup {m_ResourceToHash[a] : a \in DOMAIN m_ResourceToHash} :
        /\ Has(m_Resources, hash)
        /\ AddressesOf(hash) = {m_Resources[hash].m_Resource}
        /\ m_ReloadSupport <=> Has(m_ResourceHashToFilename, hash)

\* C5. Acquire atomicity: a Get that returns anything but Ok leaves the three
\* tables as they were; a Get that returns Ok for a name that was not interned
\* adds the descriptor to m_Resources and m_ResourceToHash and, with reload
\* support, its path to m_ResourceHashToFilename; after every call each name
\* has its entries in all of the tables or in none.
C5_Step ==
    /\ Called("Get") /\ ret'.result # "FACTORY_RESULT_OK" => UNCHANGED factoryVars
    /\ Called("Get") /\ ret'.result = "FACTORY_RESULT_OK"
          /\ ~Has(m_Resources, CanonicalPathHash(ret'.name)) =>
           LET hash == CanonicalPathHash(ret'.name)
           IN  /\ DOMAIN m_Resources' = DOMAIN m_Resources \cup {hash}
               /\ m_Resources'[hash].m_Resource = ret'.resource
               /\ DOMAIN m_ResourceToHash' = DOMAIN m_ResourceToHash \cup {ret'.resource}
               /\ m_ResourceToHash'[ret'.resource] = hash
               /\ m_ReloadSupport => Has(m_ResourceHashToFilename', hash)
    /\ InAllOrNone'

C5_AcquireAtomic == [][C5_Step]_vars

\* With reload support and a resource interned, the last call was an acquire
\* that loaded, called create and failed.
C5_Witness ==
    /\ m_ReloadSupport
    /\ ret.op = "Get" /\ ret.result = "FACTORY_RESULT_UNKNOWN"
    /\ Count(ret.calls, "create") = 1
    /\ DOMAIN m_Resources # {}

\* The pairs the notify calls of calls were made with, in order.
Notified(calls) ==
    LET IsNotify(c) == c.call = "notify"
        n == SelectSeq(calls, IsNotify)
    IN  [i \in 1..Len(n) |-> n[i].pair]

\* How often pair occurs in the sequence pairs.
Occurrences(pairs, pair) == Cardinality({i \in DOMAIN pairs : pairs[i] = pair})

ReloadedOk == ret.op = "ReloadResource" /\ ret.result = "RELOAD_RESULT_OK"

\* C6 as stated. Observer firing order: a successful reload invokes the
\* registered observers, each once, in the order in which the remaining
\* observers were registered, with the name passed to reload.
C6_RegistrationOrder ==
    ReloadedOk =>
        /\ Notified(ret.calls) = registered
        /\ \A i \in DOMAIN ret.calls :
               ret.calls[i].call = "notify" => ret.calls[i].name = ret.name

\* C6 as amended. A successful reload invokes every registered observer
\* exactly once, with the name passed to reload, in the order of the observer
\* array, in which each unregister has moved the last pair into the slot of
\* the pair it removed.
C6_ArrayOrder ==
    ReloadedOk =>
        /\ \A pair \in Pairs :
               Occurrences(Notified(ret.calls), pair) = Occurrences(registered, pair)
        /\ Notified(ret.calls) = m_ResourceReloadedCallbacks
        /\ \A i \in DOMAIN ret.calls :
               ret.calls[i].call = "notify" => ret.calls[i].name = ret.name

\* A successful reload has notified two observers, the one registered later
\* first.
C6_Witness ==
    /\ ReloadedOk
    /\ Len(Notified(ret.calls)) = 2
    /\ Notified(ret.calls) # registered

\* C7. Reload preserves identity: a ReloadResource, whatever it returns,
\* leaves the three tables as they were, reference counts included, and every
\* Get that returns Ok returns the address the first acquire of the name
\* returned.
C7_Step ==
    /\ Called("ReloadResource") => UNCHANGED factoryVars
    /\ Called("Get") /\ ret'.result = "FACTORY_RESULT_OK" =>
           ret'.resource = life'[CanonicalPathHash(ret'.name)].first

C7_ReloadPreservesIdentity == [][C7_Step]_vars

\* A resource acquired twice has just been reloaded with success.
C7_Witness ==
    /\ ReloadedOk
    /\ Has(m_Resources, CanonicalPathHash(ret.name))
    /\ m_Resources[CanonicalPathHash(ret.name)].m_ReferenceCount = 2
    /\ m_Resources[CanonicalPathHash(ret.name)].m_Resource = ret.resource

\* C8. With reload support m_ResourceHashToFilename has the keys of
\* m_Resources, each filename being the canonical path its key is the hash of;
\* so the status listing finds a descriptor for every row, and no release has
\* failed the assertion on the filename.
C8_FilenameKeys ==
    /\ m_ReloadSupport =>
           /\ DOMAIN m_ResourceHashToFilename = DOMAIN m_Resources
           /\ \A hash \in DOMAIN m_ResourceHashToFilename :
                  dmHashBuffer64(m_ResourceHashToFilename[hash]) = hash
    /\ ret.result # "ASSERTION_FAILED"

\* With reload support a release has just removed one of two resources.
C8_Witness ==
    /\ m_ReloadSupport
    /\ ret.op = "Release" /\ Count(ret.calls, "destroy") = 1
    /\ Cardinality(DOMAIN m_ResourceHashToFilename) = 1

\* C9. Reload preconditions: ReloadResource of a name that is not interned
\* returns NotFound, and of an interned resource whose handler has no recreate
\* function NotSupported; either way no transport is consulted, no handler and
\* no observer is called, and nothing but the result changes.
C9_Step ==
    Called("ReloadResource") =>
        LET hash == CanonicalPathHash(ret'.name)
            early == /\ ret'.calls = <<>>
                     /\ UNCHANGED <<factoryVars, loadVars>>
        IN  /\ ~Has(m_Resources, hash) =>
                   ret'.result = "RELOAD_RESULT_NOT_FOUND" /\ early
            /\ (Has(m_Resources, hash)
                  /\ ~m_ResourceTypes[m_Resources[hash].m_ResourceType].m_RecreateFunction) =>
                   ret'.result = "RELOAD_RESULT_NOT_SUPPORTED" /\ early

C9_ReloadPreconditions == [][C9_Step]_vars

\* With an observer registered, a reload has returned NotSupported.
C9_Witness ==
    /\ ret.op = "ReloadResource" /\ ret.result = "RELOAD_RESULT_NOT_SUPPORTED"
    /\ m_ResourceReloadedCallbacks # <<>>

\* The transports consulted by the load of calls, and whether the load failed.
Transports == {"archive", "http", "file"}
LoadFailed(calls) ==
    \E i \in DOMAIN calls :
        /\ calls[i].call \in Transports
        /\ calls[i].result \notin {"FACTORY_RESULT_OK", "RESULT_NOT_FOUND"}

\* C10. Reload failures: when the load fails the result is LoadError and
\* recreate is not called; when recreate returns OutOfMemory, FormatError,
\* ConstantError or Unknown the result is the reload result of that name; no
\* reload that returns anything but Ok notifies an observer.
C10_Step ==
    Called("ReloadResource") =>
        LET calls == ret'.calls
            Returned(create_result) ==
                \E i \in DOMAIN calls :
                    calls[i].call = "recreate" /\ calls[i].result = create_result
        IN  /\ LoadFailed(calls) =>
                   /\ ret'.result = "RELOAD_RESULT_LOAD_ERROR"
                   /\ Count(calls, "recreate") = 0
            /\ Returned("CREATE_RESULT_OUT_OF_MEMORY") =>
                   ret'.result = "RELOAD_RESULT_OUT_OF_MEMORY"
            /\ Returned("CREATE_RESULT_FORMAT_ERROR") =>
                   ret'.result = "RELOAD_RESULT_FORMAT_ERROR"
            /\ Returned("CREATE_RESULT_CONSTANT_ERROR") =>
                   ret'.result = "RELOAD_RESULT_CONSTANT_ERROR"
            /\ Returned("CREATE_RESULT_UNKNOWN") =>
                   ret'.result = "RELOAD_RESULT_UNKNOWN"
            /\ ret'.result # "RELOAD_RESULT_OK" => Count(calls, "notify") = 0

C10_ReloadFailures == [][C10_Step]_vars

\* With two observers registered, recreate has returned FormatError.
C10_Witness ==
    /\ ret.op = "ReloadResource" /\ ret.result = "RELOAD_RESULT_FORMAT_ERROR"
    /\ Count(ret.calls, "recreate") = 1
    /\ Len(m_ResourceReloadedCallbacks) = 2

\* The transports a call consulted, in order, and the entry of the one that
\* ended the load.
TransportCalls(calls) ==
    LET IsTransport(c) == c.call \in Transports
    IN  SelectSeq(calls, IsTransport)
Consulted(calls) ==
    [i \in 1..Len(TransportCalls(calls)) |-> TransportCalls(calls)[i].call]
LoadOf(calls) == TransportCalls(calls)[Len(TransportCalls(calls))]
HasLoaded == TransportCalls(ret.calls) # <<>>

\* Whether the archive has an entry under the name the last call was made
\* with.
ArchiveHit ==
    ~m_BuiltinsArchive.null /\ Has(m_BuiltinsArchive.entries, ret.name)

\* C11. Transport selection order: a load consults the archive first when
\* there is one; when the archive has no entry for the name, or there is no
\* archive, it consults the HTTP client if the factory has one and the file
\* system otherwise, and nothing after that: the file system is never
\* consulted by a factory with an HTTP client, whatever the GET returned.
C11_TransportOrder ==
    HasLoaded =>
        /\ Consulted(ret.calls) =
               (IF m_BuiltinsArchive.null THEN <<>> ELSE <<"archive">>)
               \o (IF ArchiveHit THEN <<>>
                   ELSE IF m_HttpClient THEN <<"http">> ELSE <<"file">>)
        /\ m_HttpClient => Count(ret.calls, "file") = 0

\* A factory with an archive and an HTTP client: the archive had no entry,
\* the GET failed, and the load ended there.
C11_Witness ==
    /\ ret.op = "Get" /\ ret.result = "FACTORY_RESULT_IO_ERROR"
    /\ m_HttpClient
    /\ Consulted(ret.calls) = <<"archive", "http">>

\* C12. Archive shadowing: when the archive has an entry under the original
\* name, no other transport is consulted; an entry of n bytes with
\* n + 1 < m_StreamBufferSize is loaded with result Ok and size n, and the
\* stream buffer starts with the bytes of the entry.
C12_ArchiveShadowing ==
    (HasLoaded /\ ArchiveHit) =>
        LET data == m_BuiltinsArchive.entries[ret.name]
            load == LoadOf(ret.calls)
        IN  /\ Consulted(ret.calls) = <<"archive">>
            /\ Len(data) + 1 < m_StreamBufferSize =>
                   /\ load.result = "FACTORY_RESULT_OK"
                   /\ load.size = Len(data)
                   /\ SubSeq(m_StreamBuffer, 1, Len(data)) = data

\* An acquire by the original name in a factory with an HTTP client has
\* returned the two bytes of the archive entry.
C12_Witness ==
    /\ ret.op = "Get" /\ ret.result = "FACTORY_RESULT_OK" /\ ret.name = NameAT
    /\ m_HttpClient
    /\ ArchiveHit
    /\ SubSeq(m_StreamBuffer, 1, 2) = ArchiveData(2)
    /\ LoadOf(ret.calls).size = 2

\* C13 as stated. Archive size bound: an archive hit for an entry of n bytes
\* returns StreamBufferTooSmall only if n + 1 > m_StreamBufferSize and Ok with
\* size n whenever n + 1 <= m_StreamBufferSize; a hit that is too large
\* consults no other transport.
C13_ArchiveBoundExceeds ==
    (HasLoaded /\ ArchiveHit) =>
        LET n == Len(m_BuiltinsArchive.entries[ret.name])
            load == LoadOf(ret.calls)
        IN  /\ load.result = "FACTORY_RESULT_STREAMBUFFER_TOO_SMALL" =>
                   n + 1 > m_StreamBufferSize
            /\ n + 1 <= m_StreamBufferSize =>
                   load.result = "FACTORY_RESULT_OK" /\ load.size = n
            /\ Consulted(ret.calls) = <<"archive">>

\* C13 as amended. An archive hit for an entry of n bytes returns
\* StreamBufferTooSmall exactly when n + 1 >= m_StreamBufferSize, and Ok with
\* size n otherwise; a hit that is too large consults no other transport.
C13_ArchiveBound ==
    (HasLoaded /\ ArchiveHit) =>
        LET n == Len(m_BuiltinsArchive.entries[ret.name])
            load == LoadOf(ret.calls)
        IN  /\ load.result = "FACTORY_RESULT_STREAMBUFFER_TOO_SMALL" <=>
                   n + 1 >= m_StreamBufferSize
            /\ n + 1 < m_StreamBufferSize =>
                   load.result = "FACTORY_RESULT_OK" /\ load.size = n
            /\ Consulted(ret.calls) = <<"archive">>

\* An entry one byte shorter than the stream buffer size has been refused, and
\* the acquire has ended there.
C13_Witness ==
    /\ ret.op = "Get" /\ ret.result = "FACTORY_RESULT_STREAMBUFFER_TOO_SMALL"
    /\ ArchiveHit
    /\ Len(m_BuiltinsArchive.entries[ret.name]) + 1 = m_StreamBufferSize
    /\ Consulted(ret.calls) = <<"archive">>

\* Whether the load of the last call ended at the given transport.
LoadedFrom(transport) == HasLoaded /\ LoadOf(ret.calls).call = transport

\* C14. Filesystem size bound: the load of a file of n bytes returns
\* StreamBufferTooSmall exactly when n + 1 >= m_StreamBufferSize,
\* ResourceNotFound when the file cannot be opened and IoError when the read
\* is short; an acquire whose load ends so returns that result and interns no
\* descriptor.
C14_FileBound ==
    LoadedFrom("file") =>
        LET load == LoadOf(ret.calls)
            file == load.answer
            n == Len(file.data)
            failed == {"FACTORY_RESULT_STREAMBUFFER_TOO_SMALL",
                       "FACTORY_RESULT_RESOURCE_NOT_FOUND", "FACTORY_RESULT_IO_ERROR"}
        IN  /\ ~file.exists => load.result = "FACTORY_RESULT_RESOURCE_NOT_FOUND"
            /\ file.exists =>
                   (load.result = "FACTORY_RESULT_STREAMBUFFER_TOO_SMALL" <=>
                        n + 1 >= m_StreamBufferSize)
            /\ (file.exists /\ n + 1 < m_StreamBufferSize /\ file.nread < n) =>
                   load.result = "FACTORY_RESULT_IO_ERROR"
            /\ (file.exists /\ n + 1 < m_StreamBufferSize /\ file.nread = n) =>
                   load.result = "FACTORY_RESULT_OK" /\ load.size = n
            /\ (ret.op = "Get" /\ load.result \in failed) =>
                   /\ ret.result = load.result
                   /\ ret.resource = 0
                   /\ NoEntry(CanonicalPathHash(ret.name))

\* A file one byte shorter than the stream buffer size has been refused and
\* nothing is interned.
C14_Witness ==
    /\ ret.op = "Get" /\ ret.result = "FACTORY_RESULT_STREAMBUFFER_TOO_SMALL"
    /\ LoadedFrom("file")
    /\ Len(LoadOf(ret.calls).answer.data) + 1 = m_StreamBufferSize
    /\ m_Resources = EmptyTable

\* The chunks of a response, and the status of its last header line (-1 when
\* it has none).
ChunksOf(events) ==
    LET IsContent(e) == e.type = "content"
        c == SelectSeq(events, IsContent)
    IN  [i \in 1..Len(c) |-> c[i].data]
StatusOf(events) ==
    LET IsHeader(e) == e.type = "header"
        h == SelectSeq(events, IsHeader)
    IN  IF h = <<>> THEN -1 ELSE h[Len(h)].status

\* What streaming the chunks into a buffer of the given size is to leave: the
\* bytes of the chunks that fitted the room left when they came, and whether
\* a chunk did not.
RECURSIVE Streamed(_, _, _)
Streamed(chunks, buffer_size, acc) ==
    IF chunks = <<>> THEN acc
    ELSE IF Len(Head(chunks)) > buffer_size - Len(acc.bytes)
    THEN Streamed(Tail(chunks), buffer_size, [acc EXCEPT !.dropped = TRUE])
    ELSE Streamed(Tail(chunks), buffer_size,
                  [acc EXCEPT !.bytes = @ \o Head(chunks)])
StreamedOf(get) ==
    Streamed(ChunksOf(get.events), m_StreamBufferSize,
             [bytes |-> <<>>, dropped |-> FALSE])

\* C15. HTTP load result precedence: when the GET reports an error the result
\* is ResourceNotFound if the status captured is 404 and IoError otherwise,
\* whether or not a chunk was dropped; otherwise, when a chunk was dropped,
\* StreamBufferTooSmall; otherwise Ok with the number of bytes streamed as
\* size, whatever Content-Length announced.
C15_HttpPrecedence ==
    LoadedFrom("http") =>
        LET load == LoadOf(ret.calls)
            get == load.answer
        IN  IF get.result # "RESULT_OK"
            THEN load.result = IF StatusOf(get.events) = 404
                               THEN "FACTORY_RESULT_RESOURCE_NOT_FOUND"
                               ELSE "FACTORY_RESULT_IO_ERROR"
            ELSE IF StreamedOf(get).dropped
            THEN load.result = "FACTORY_RESULT_STREAMBUFFER_TOO_SMALL"
            ELSE /\ load.result = "FACTORY_RESULT_OK"
                 /\ load.size = Len(StreamedOf(get).bytes)
                 /\ load.size = m_HttpTotalBytesStreamed

\* A GET that announced two bytes and delivered four has been loaded with
\* result Ok and size four.
C15_Witness ==
    /\ ret.op = "Get" /\ ret.result = "FACTORY_RESULT_OK"
    /\ LoadedFrom("http")
    /\ LoadOf(ret.calls).size = 4
    /\ m_HttpContentLength = 2

\* The HTTP-load state after the first k callbacks of a GET, started as
\* LoadResource starts it.
AfterCallbacks(events, k) ==
    HttpCallbacks(HttpState(0, 0, -1, "FACTORY_RESULT_OK", Str(m_StreamBufferSize + 1)),
                  m_StreamBufferSize, SubSeq(events, 1, k), 1)

\* C16. HTTP streaming bound: after every callback of a GET
\* m_HttpTotalBytesStreamed is at most m_StreamBufferSize and the assertion of
\* HttpContent has held; a chunk larger than the room left changes neither
\* m_HttpTotalBytesStreamed nor the stream buffer and sets m_HttpFactoryResult
\* to StreamBufferTooSmall, which it then is for the rest of the GET, chunks
\* that fit being appended all the same.
C16_StreamingBound ==
    LoadedFrom("http") =>
        LET events == LoadOf(ret.calls).answer.events
            too_small == "FACTORY_RESULT_STREAMBUFFER_TOO_SMALL"
        IN  /\ ret.result # "ASSERTION_FAILED"
            /\ m_HttpTotalBytesStreamed <= m_StreamBufferSize
            /\ m_HttpFactoryResult = AfterCallbacks(events, Len(events)).m_HttpFactoryResult
            /\ \A k \in 1..Len(events) :
                   LET before == AfterCallbacks(events, k - 1)
                       after == AfterCallbacks(events, k)
                       streamed == before.m_HttpTotalBytesStreamed
                       data == events[k].data
                   IN  /\ ~after.asserted
                       /\ after.m_HttpTotalBytesStreamed <= m_StreamBufferSize
                       /\ before.m_HttpFactoryResult = too_small =>
                              after.m_HttpFactoryResult = too_small
                       /\ events[k].type = "content" =>
                              IF Len(data) > m_StreamBufferSize - streamed
                              THEN /\ after.m_HttpTotalBytesStreamed = streamed
                                   /\ after.m_StreamBuffer = before.m_StreamBuffer
                                   /\ after.m_HttpFactoryResult = too_small
                              ELSE /\ after.m_HttpTotalBytesStreamed = streamed + Len(data)
                                   /\ SubSeq(after.m_StreamBuffer, streamed + 1,
                                             streamed + Len(data)) = data

\* A GET has delivered a chunk larger than the buffer and then a chunk of one
\* byte: one byte is streamed and the result is StreamBufferTooSmall.
C16_Witness ==
    /\ ret.op = "Get" /\ ret.result = "FACTORY_RESULT_STREAMBUFFER_TOO_SMALL"
    /\ LoadedFrom("http")
    /\ Len(ChunksOf(LoadOf(ret.calls).answer.events)) = 2
    /\ m_HttpTotalBytesStreamed = 1
    /\ m_HttpFactoryResult = "FACTORY_RESULT_STREAMBUFFER_TOO_SMALL"

\* The content the transport that ended the load delivered.
ContentOf(load) ==
    CASE load.call = "archive" -> load.answer
      [] load.call = "http" -> StreamedOf(load.answer).bytes
      [] load.call = "file" -> load.answer.data

\* C17. Trailing NUL guarantee: after a load that returned Ok with size n,
\* from whichever transport, n <= m_StreamBufferSize, index n lies inside the
\* allocation of m_StreamBufferSize + 1 bytes, the byte at index n is NUL and
\* the bytes at the indices 0..n-1 are the content loaded.
C17_TrailingNul ==
    (HasLoaded /\ LoadOf(ret.calls).result = "FACTORY_RESULT_OK") =>
        LET load == LoadOf(ret.calls)
            n == load.size
        IN  /\ n >= 0 /\ n <= m_StreamBufferSize
            /\ Len(m_StreamBuffer) = m_StreamBufferSize + 1
            /\ n + 1 <= Len(m_StreamBuffer)
            /\ m_StreamBuffer[n + 1] = 0
            /\ n = Len(ContentOf(load))
            /\ SubSeq(m_StreamBuffer, 1, n) = ContentOf(load)

\* A GET has filled the stream buffer: the NUL is the last byte of the
\* allocation.
C17_Witness ==
    /\ ret.op = "Get" /\ ret.result = "FACTORY_RESULT_OK"
    /\ LoadedFrom("http")
    /\ LoadOf(ret.calls).size = m_StreamBufferSize
    /\ m_StreamBuffer[m_StreamBufferSize + 1] = 0

\* Whether a character of the extension is a dot, and whether an entry of
\* the registry has the extension.
HasDot(extension) == \E i \in DOMAIN extension : extension[i] = "."
HasEntry(types, extension) ==
    \E i \in DOMAIN types : types[i].m_Extension = extension
ExtensionsOf(types) == {types[i].m_Extension : i \in DOMAIN types}

\* C18 as stated. register_type result: a call with a dot in the extension or
\* without create or destroy function returns Invalid; any other call whose
\* extension has an entry returns AlreadyRegistered; OutOfResources is
\* returned only to calls that are neither, when the registry holds 128
\* entries; every remaining call returns Ok.
C18_InvalidFirst ==
    \A extension \in Extensions, create_function \in BOOLEAN, destroy_function \in BOOLEAN :
        LET r == RegisterTypeResult(m_ResourceTypes, extension,
                                    create_function, destroy_function)
            invalid == HasDot(extension) \/ ~create_function \/ ~destroy_function
            existing == HasEntry(m_ResourceTypes, extension)
            full == Len(m_ResourceTypes) = 128
        IN  /\ invalid => r = "FACTORY_RESULT_INVAL"
            /\ (~invalid /\ existing) => r = "FACTORY_RESULT_ALREADY_REGISTERED"
            /\ r = "FACTORY_RESULT_OUT_OF_RESOURCES" => (~invalid /\ ~existing /\ full)
            /\ (~invalid /\ ~existing /\ full) => r = "FACTORY_RESULT_OUT_OF_RESOURCES"
            /\ (~invalid /\ ~existing /\ ~full) => r = "FACTORY_RESULT_OK"

\* C18 as amended. Every call made when the registry holds 128 entries
\* returns OutOfResources, whatever its arguments; of the other calls, one
\* with a dot in the extension or without create or destroy function returns
\* Invalid, any other whose extension has an entry AlreadyRegistered, and
\* every remaining one Ok.
C18_FullFirst ==
    \A extension \in Extensions, create_function \in BOOLEAN, destroy_function \in BOOLEAN :
        LET r == RegisterTypeResult(m_ResourceTypes, extension,
                                    create_function, destroy_function)
            invalid == HasDot(extension) \/ ~create_function \/ ~destroy_function
            existing == HasEntry(m_ResourceTypes, extension)
            full == Len(m_ResourceTypes) = 128
        IN  /\ full => r = "FACTORY_RESULT_OUT_OF_RESOURCES"
            /\ (~full /\ invalid) => r = "FACTORY_RESULT_INVAL"
            /\ (~full /\ ~invalid /\ existing) => r = "FACTORY_RESULT_ALREADY_REGISTERED"
            /\ (~full /\ ~invalid /\ ~existing) => r = "FACTORY_RESULT_OK"

\* With 128 types registered, a call with a dot in the extension has returned
\* OutOfResources.
C18_Witness ==
    /\ ret.op = "RegisterType" /\ ret.result = "FACTORY_RESULT_OUT_OF_RESOURCES"
    /\ HasDot(ret.name)
    /\ Len(m_ResourceTypes) = 128

\* The registry invariants of C19.
RegistryOk(types) ==
    /\ Len(types) <= 128
    /\ Cardinality(ExtensionsOf(types)) = Len(types)
    /\ \A i \in DOMAIN types :
           /\ ~HasDot(types[i].m_Extension)
           /\ types[i].m_CreateFunction
           /\ types[i].m_DestroyFunction

\* C19. Handler registry invariants: the registry never holds more than 128
\* entries, its extensions are pairwise distinct and without dot, and every
\* entry has a create and a destroy function; a RegisterType that returns Ok
\* appends one entry, with the extension of the call, and leaves the earlier
\* entries as they were; any other call leaves the registry unchanged.
C19_Step ==
    /\ RegistryOk(m_ResourceTypes')
    /\ IF Called("RegisterType") /\ ret'.result = "FACTORY_RESULT_OK"
       THEN /\ Len(m_ResourceTypes') = Len(m_ResourceTypes) + 1
            /\ SubSeq(m_ResourceTypes', 1, Len(m_ResourceTypes)) = m_ResourceTypes
            /\ m_ResourceTypes'[Len(m_ResourceTypes')].m_Extension = ret'.name
       ELSE UNCHANGED m_ResourceTypes

C19_RegistryInvariants == [][C19_Step]_vars

\* The 128th type has just been registered.
C19_Witness ==
    /\ ret.op = "RegisterType" /\ ret.result = "FACTORY_RESULT_OK"
    /\ Len(m_ResourceTypes) = 128
    /\ m_ResourceTypes[128].m_Extension = ret.name

\* C20. Type-id round trip: for every registered extension
\* GetTypeFromExtension returns Ok with a type id for which
\* GetExtensionFromType returns Ok with that extension; distinct extensions
\* have distinct type ids; an unregistered extension and a type id that is
\* the address of no entry get UnknownResourceType.
C20_TypeIdRoundTrip ==
    LET types == m_ResourceTypes
        TypeOf(i) == TypeFromExtension(types, types[i].m_Extension)
    IN  /\ \A i \in DOMAIN types :
               /\ TypeOf(i).result = "FACTORY_RESULT_OK"
               /\ ExtensionFromType(types, TypeOf(i).type) =
                      [result |-> "FACTORY_RESULT_OK", extension |-> types[i].m_Extension]
        /\ Cardinality({TypeOf(i).type : i \in DOMAIN types}) = Len(types)
        /\ TypeFromExtension(types, Ext(Len(types) + 1)).result =
               "FACTORY_RESULT_UNKNOWN_RESOURCE_TYPE"
        /\ ExtensionFromType(types, Uint32(AddOffset(EntryAddress(1), 1))).result =
               "FACTORY_RESULT_UNKNOWN_RESOURCE_TYPE"

\* C21. Release ordering: the Release that takes the reference count to 0
\* calls the handler's destroy, once, while the descriptor is still in
\* m_Resources under its hash and in m_ResourceToHash under its address, and
\* its filename in m_ResourceHashToFilename, and erases the three entries
\* afterwards; a Release that leaves the count above 0 calls no handler and
\* erases nothing.
C21_Step ==
    Called("Release") /\ Has(m_ResourceToHash, ret'.resource) =>
        LET resource == ret'.resource
            hash == m_ResourceToHash[resource]
        IN  IF m_Resources[hash].m_ReferenceCount = 1
            THEN /\ Len(ret'.calls) = 1
                 /\ ret'.calls[1].call = "destroy"
                 /\ LET seen == ret'.calls[1].tables
                    IN  /\ Has(seen.m_Resources, hash)
                        /\ seen.m_Resources[hash].m_Resource = resource
                        /\ seen.m_Resources[hash].m_ReferenceCount = 0
                        /\ Has(seen.m_ResourceToHash, resource)
                        /\ seen.m_ResourceToHash[resource] = hash
                        /\ m_ReloadSupport => Has(seen.m_ResourceHashToFilename, hash)
                 /\ ~Has(m_Resources', hash)
                 /\ ~Has(m_ResourceToHash', resource)
                 /\ ~Has(m_ResourceHashToFilename', hash)
            ELSE /\ ret'.calls = <<>>
                 /\ DOMAIN m_Resources' = DOMAIN m_Resources
                 /\ m_ResourceToHash' = m_ResourceToHash
                 /\ m_ResourceHashToFilename' = m_ResourceHashToFilename
C21_ReleaseOrdering == [][C21_Step]_vars

\* The last Release of a resource of a factory with reload support: destroy
\* saw the descriptor and its filename, and they are gone now.
C21_Witness ==
    /\ ret.op = "Release" /\ m_ReloadSupport /\ Len(ret.calls) = 1
    /\ \E hash \in DOMAIN ret.calls[1].tables.m_Resources :
          /\ ret.calls[1].tables.m_Resources[hash].m_Resource = ret.resource
          /\ Has(ret.calls[1].tables.m_ResourceHashToFilename, hash)
          /\ ~Has(m_Resources, hash)
          /\ ~Has(m_ResourceHashToFilename, hash)

\* C22. Release of an address that is no key of m_ResourceToHash fails an
\* assertion: it does not return, calls no handler and changes no table; and
\* an address is no key once its resource has been released as often as it
\* was acquired, unless a new resource has been created at it since.
C22_Balanced ==
    \A hash \in DOMAIN life :
        life[hash].released = life[hash].acquired =>
            \/ ~Has(m_ResourceToHash, life[hash].first)
            \/ m_ResourceToHash[life[hash].first] # hash
C22_Step ==
    /\ C22_Balanced'
    /\ Called("Release") /\ ~Has(m_ResourceToHash, ret'.resource) =>
          /\ ret'.result = "ASSERTION_FAILED"
          /\ ret'.calls = <<>>
          /\ UNCHANGED <<factoryVars, life>>
C22_ReleaseUnknown == [][C22_Step]_vars

\* A resource acquired twice and released twice is released a third time.
C22_Witness ==
    /\ ret.op = "Release" /\ ret.result = "ASSERTION_FAILED"
    /\ \E hash \in DOMAIN life :
          /\ life[hash].first = ret.resource
          /\ life[hash].acquired = 2
          /\ life[hash].released = 2
          /\ ~Has(m_ResourceToHash, ret.resource)

\* C23. Acquire miss classification: Get of a name that is not interned
\* returns MISSING_FILE_EXTENSION when the name has no '.', and
\* UNKNOWN_RESOURCE_TYPE when what follows its last '.' is the extension of
\* no registered type; either way no transport is asked, no handler is
\* called, no resource is returned and no table changes.
C23_Step ==
    Called("Get") /\ ~Has(m_Resources, CanonicalPathHash(ret'.name)) =>
        LET name == ret'.name
            dots == {i \in DOMAIN name : name[i] = "."}
            last == CHOOSE i \in dots : \A j \in dots : j <= i
            untouched ==
                /\ ret'.calls = <<>>
                /\ ret'.resource = 0
                /\ UNCHANGED <<factoryVars, loadVars, m_ResourceTypes, life>>
        IN  /\ dots = {} =>
                /\ ret'.result = "FACTORY_RESULT_MISSING_FILE_EXTENSION"
                /\ untouched
            /\ dots # {} /\ ~HasEntry(m_ResourceTypes, SubSeq(name, last + 1, Len(name))) =>
                /\ ret'.result = "FACTORY_RESULT_UNKNOWN_RESOURCE_TYPE"
                /\ untouched
            /\ dots # {} /\ HasEntry(m_ResourceTypes, SubSeq(name, last + 1, Len(name))) =>
                /\ ret'.result \notin {"FACTORY_RESULT_MISSING_FILE_EXTENSION",
                                       "FACTORY_RESULT_UNKNOWN_RESOURCE_TYPE"}
                /\ TransportCalls(ret'.calls) # <<>>
C23_MissClassification == [][C23_Step]_vars

\* Get of a.x while a type is registered, though none for x.
C23_Witness ==
    /\ ret.op = "Get" /\ ret.name = NameAX
    /\ ret.result = "FACTORY_RESULT_UNKNOWN_RESOURCE_TYPE"
    /\ m_ResourceTypes # <<>>
    /\ ret.calls = <<>>

\* C24. Observer capacity: m_ResourceReloadedCallbacks never holds more than
\* 16 pairs; RegisterResourceReloadedCallback on a list of 16 pairs leaves
\* the list as it is, and on a shorter list, also one an unregistration has
\* made room in, appends the pair.
C24_Step ==
    /\ Len(m_ResourceReloadedCallbacks') <= 16
    /\ Called("RegisterResourceReloadedCallback") /\ m_ReloadSupport =>
          IF Len(m_ResourceReloadedCallbacks) = 16
          THEN /\ m_ResourceReloadedCallbacks' = m_ResourceReloadedCallbacks
               /\ Count(ret'.calls, "Push") = 0
          ELSE /\ Len(m_ResourceReloadedCallbacks') = Len(m_ResourceReloadedCallbacks) + 1
               /\ SubSeq(m_ResourceReloadedCallbacks', 1, Len(m_ResourceReloadedCallbacks))
                    = m_ResourceReloadedCallbacks
               /\ Count(ret'.calls, "Push") = 1
               /\ m_ResourceReloadedCallbacks'[Len(m_ResourceReloadedCallbacks')]
                    = ret'.calls[1].pair
C24_ObserverCapacity == [][C24_Step]_vars

\* A registration that found the list full: 16 pairs, and the warning.
C24_Witness ==
    /\ ret.op = "RegisterResourceReloadedCallback"
    /\ Count(ret.calls, "dmLogWarning") = 1
    /\ Len(m_ResourceReloadedCallbacks) = 16

\* C27. The HTTP server flag enables reload support: a factory made with it
\* has m_ResourceHashToFilename and m_ResourceReloadedCallbacks, whether or
\* not the reload support flag was passed and whether or not the HTTP server
\* started, and observers register with it; a factory made with neither flag
\* has neither member, and its observer list stays empty.
C27_Flags ==
    /\ "RESOURCE_FACTORY_FLAGS_HTTP_SERVER" \in m_Flags => m_ReloadSupport
    /\ "RESOURCE_FACTORY_FLAGS_RELOAD_SUPPORT" \in m_Flags => m_ReloadSupport
    /\ m_Flags = {} => ~m_ReloadSupport /\ m_ResourceReloadedCallbacks = <<>>
    /\ m_HttpServer => "RESOURCE_FACTORY_FLAGS_HTTP_SERVER" \in m_Flags
C27_Step ==
    /\ C27_Flags'
    /\ /\ Called("RegisterResourceReloadedCallback")
       /\ "RESOURCE_FACTORY_FLAGS_HTTP_SERVER" \in m_Flags
       /\ Len(m_ResourceReloadedCallbacks) < 16
       => Len(m_ResourceReloadedCallbacks') = Len(m_ResourceReloadedCallbacks) + 1
C27_HttpServerImpliesReload == [][C27_Step]_vars

\* A factory made with the HTTP server flag whose server did not start, with
\* an observer registered.
C27_Witness ==
    /\ "RESOURCE_FACTORY_FLAGS_HTTP_SERVER" \in m_Flags
    /\ ~m_HttpServer
    /\ m_ReloadSupport
    /\ ret.op = "RegisterResourceReloadedCallback"
    /\ Len(m_ResourceReloadedCallbacks) = 1

\* C25. UnregisterResourceReloadedCallback(callback, user_data) removes every
\* pair of the list with that callback and that user data, duplicates,
\* neighbours and a pair swapped into the slot just erased included, and
\* keeps every other pair as often as it was there; a reload that succeeds
\* afterwards notifies only pairs that are still registered.
C25_Step ==
    /\ Called("UnregisterResourceReloadedCallback") =>
          /\ \A i \in DOMAIN m_ResourceReloadedCallbacks' :
                m_ResourceReloadedCallbacks'[i] # ret'.pair
          /\ \A pair \in Pairs \ {ret'.pair} :
                Occurrences(m_ResourceReloadedCallbacks', pair)
                  = Occurrences(m_ResourceReloadedCallbacks, pair)
          /\ Len(ret'.calls) = Occurrences(m_ResourceReloadedCallbacks, ret'.pair)
    /\ Called("ReloadResource") /\ ret'.result = "RELOAD_RESULT_OK" =>
          \A pair \in Pairs :
              Occurrences(Notified(ret'.calls), pair) = Occurrences(registered, pair)
C25_UnregisterAll == [][C25_Step]_vars

\* An unregistration that erased twice at the same index, the second pair
\* having been swapped into the slot of the first, and kept a third pair.
C25_Witness ==
    /\ ret.op = "UnregisterResourceReloadedCallback"
    /\ Len(ret.calls) = 2
    /\ ret.calls[1].index = ret.calls[2].index
    /\ Len(m_ResourceReloadedCallbacks) = 1

\* s with a '/' of its first run of '/' taken out, again and again until no
\* two '/' are adjacent.
RECURSIVE CollapsedRuns(_)
CollapsedRuns(s) ==
    LET runs == {i \in 1..(Len(s) - 1) : s[i] = "/" /\ s[i + 1] = "/"}
    IN  IF runs = {} THEN s
        ELSE LET first == CHOOSE i \in runs : \A j \in runs : i <= j
             IN  CollapsedRuns(SubSeq(s, 1, first) \o SubSeq(s, first + 2, Len(s)))

\* The characters of s other than '/', in their order.
Segments(s) ==
    LET NoSlash(c) == c # "/"
    IN  SelectSeq(s, NoSlash)

IsPrefix(p, s) == Len(p) <= Len(s) /\ SubSeq(s, 1, Len(p)) = p

\* path without the prefix base, if it has that prefix.
Strip(base, path) ==
    IF IsPrefix(base, path) THEN SubSeq(path, Len(base) + 1, Len(path)) ELSE path

\* base, '/' and rel have room in the buffer of RESOURCE_PATH_MAX characters
\* together with the terminating NUL.
Fits(base, rel) == Len(base) + 1 + Len(rel) < 1024

NoRun(s) == \A i \in 1..(Len(s) - 1) : ~(s[i] = "/" /\ s[i + 1] = "/")

C28_Step ==
    /\ Called("Get")
    /\ Count(ret'.calls, "create") = 1
    /\ ret'.calls[Len(ret'.calls)].result # "CREATE_RESULT_OK"
    => /\ ret'.calls[Len(ret'.calls)].call = "create"
       /\ ret'.calls[Len(ret'.calls)].result
            \in {"CREATE_RESULT_OUT_OF_MEMORY", "CREATE_RESULT_FORMAT_ERROR",
                 "CREATE_RESULT_CONSTANT_ERROR", "CREATE_RESULT_UNKNOWN"}
       /\ ret'.result = "FACTORY_RESULT_UNKNOWN"
       /\ ret'.resource = 0
       /\ ~Has(m_Resources', CanonicalPathHash(ret'.name))
       /\ UNCHANGED <<factoryVars, life>>
C28_CreateFailure == [][C28_Step]_vars

\* A Get whose create returned CREATE_RESULT_OUT_OF_MEMORY.
C28_Witness ==
    /\ ret.op = "Get" /\ ret.calls # <<>>
    /\ ret.calls[Len(ret.calls)].call = "create"
    /\ ret.calls[Len(ret.calls)].result = "CREATE_RESULT_OUT_OF_MEMORY"
    /\ ret.result = "FACTORY_RESULT_UNKNOWN"
    /\ ret.resource = 0

\* C30. Descriptors are shared by canonical path: a Get that succeeds leaves
\* the descriptor of the name under the hash of base, '/' and the name with
\* the runs of '/' collapsed, with the address returned and, where filenames
\* are kept, that path as its filename; a hit returns the address the
\* descriptor had, adds 1 to its count and calls no create, so a.t and /a.t
\* acquired once each give one address, count 2 and one create; a.t and
\* ./a.t have two descriptors at two addresses; and neither Get nor Release
\* changes the descriptor of another path.
C30_Step ==
    /\ Called("Get") /\ ret'.result = "FACTORY_RESULT_OK" =>
          LET path == CollapsedRuns(BasePath \o <<"/">> \o ret'.name)
              hash == dmHashBuffer64(path)
          IN  /\ Has(m_Resources', hash)
              /\ m_Resources'[hash].m_Resource = ret'.resource
              /\ m_ResourceToHash'[ret'.resource] = hash
              /\ m_ReloadSupport => m_ResourceHashToFilename'[hash] = path
              /\ \A other \in DOMAIN m_Resources \ {hash} :
                    /\ Has(m_Resources', other)
                    /\ m_Resources'[other] = m_Resources[other]
                    /\ m_Resources[other].m_Resource # ret'.resource
              /\ IF Has(m_Resources, hash)
                 THEN /\ m_Resources[hash].m_Resource = ret'.resource
                      /\ m_Resources'[hash].m_ReferenceCount
                           = m_Resources[hash].m_ReferenceCount + 1
                      /\ Count(ret'.calls, "create") = 0
                      /\ life'[hash].created = 1
                 ELSE /\ m_Resources'[hash].m_ReferenceCount = 1
                      /\ Count(ret'.calls, "create") = 1
    /\ Called("Release") /\ Has(m_ResourceToHash, ret'.resource) =>
          \A other \in DOMAIN m_Resources \ {m_ResourceToHash[ret'.resource]} :
              /\ Has(m_Resources', other)
              /\ m_Resources'[other] = m_Resources[other]
C30_SharedByCanonicalPath == [][C30_Step]_vars

\* /a.t has just been acquired after a.t: one descriptor with count 2 and
\* one create, next to the descriptor of ./a.t at another address.
C30_Witness ==
    /\ ret.op = "Get" /\ ret.name = NameSlashAT /\ ret.result = "FACTORY_RESULT_OK"
    /\ m_Resources[CanonicalPathHash(NameAT)].m_ReferenceCount = 2
    /\ m_Resources[CanonicalPathHash(NameAT)].m_Resource = ret.resource
    /\ life[CanonicalPathHash(NameAT)].created = 1
    /\ Has(m_Resources, CanonicalPathHash(NameDotSlashAT))
    /\ CanonicalPathHash(NameDotSlashAT) # CanonicalPathHash(NameAT)
    /\ m_Resources[CanonicalPathHash(NameDotSlashAT)].m_Resource # ret.resource

\* The value of the last Content-Length header of the events, 0 without one.
ContentLengthOf(events) ==
    LET IsLength(e) == e.type = "header" /\ e.key = "Content-Length"
        h == SelectSeq(events, IsLength)
    IN  IF h = <<>> THEN 0 ELSE h[Len(h)].value

\* C29. HTTP load state is per request: after a load over HTTP the content
\* length, the bytes streamed, the status and the result kept in the factory
\* are those of that GET alone, whatever the load before left there; so a GET
\* that succeeds and whose chunks all fit, also one that follows a load that
\* ended in STREAMBUFFER_TOO_SMALL, RESOURCE_NOT_FOUND or IO_ERROR, is loaded
\* with result Ok and the number of its own bytes.
C29_HttpStatePerRequest ==
    LoadedFrom("http") =>
        LET load == LoadOf(ret.calls)
            get == load.answer
            streamed == StreamedOf(get)
        IN  /\ m_HttpContentLength = ContentLengthOf(get.events)
            /\ m_HttpTotalBytesStreamed = Len(streamed.bytes)
            /\ m_HttpStatus = StatusOf(get.events)
            /\ m_HttpFactoryResult = IF streamed.dropped
                                     THEN "FACTORY_RESULT_STREAMBUFFER_TOO_SMALL"
                                     ELSE "FACTORY_RESULT_OK"
            /\ get.result = "RESULT_OK" /\ ~streamed.dropped =>
                  /\ load.result = "FACTORY_RESULT_OK"
                  /\ load.size = Len(streamed.bytes)
                  /\ SubSeq(m_StreamBuffer, 1, load.size) = streamed.bytes

\* A GET of one byte has been loaded with result Ok and size 1 after a GET
\* whose second chunk was dropped: the third byte of that GET is still in the
\* buffer, and no load has written a fourth.
C29_Witness ==
    /\ ret.op = "Get" /\ ret.result = "FACTORY_RESULT_OK"
    /\ LoadedFrom("http")
    /\ LoadOf(ret.calls).size = 1
    /\ m_HttpTotalBytesStreamed = 1
    /\ m_HttpFactoryResult = "FACTORY_RESULT_OK"
    /\ m_StreamBuffer = <<21, 0, 23, Indeterminate, Indeterminate>>

\* C31. Re-acquire after the final release: a Get of a name whose descriptor
\* the last Release has removed is a miss: it asks the transport and, the
\* load having succeeded, calls create once; when it succeeds it interns a
\* descriptor with reference count 1, whatever the count of the earlier
\* lifetime was, at the address the handler has installed, an address of no
\* live resource, and the counting of the lifetime starts anew.
C31_Step ==
    /\ Called("Get")
    /\ Has(life, CanonicalPathHash(ret'.name))
    /\ ~Has(m_Resources, CanonicalPathHash(ret'.name))
    => LET hash == CanonicalPathHash(ret'.name)
       IN  /\ life[hash].released = life[hash].acquired
           /\ life[hash].destroyed = 1
           /\ TransportCalls(ret'.calls) # <<>>
           /\ LoadOf(ret'.calls).result = "FACTORY_RESULT_OK"
                 => Count(ret'.calls, "create") = 1
           /\ ret'.result = "FACTORY_RESULT_OK" =>
                 /\ Count(ret'.calls, "create") = 1
                 /\ Has(m_Resources', hash)
                 /\ m_Resources'[hash].m_ReferenceCount = 1
                 /\ m_Resources'[hash].m_Resource = ret'.resource
                 /\ ~Has(m_ResourceToHash, ret'.resource)
                 /\ m_ResourceToHash'[ret'.resource] = hash
                 /\ life'[hash].acquired = 1 /\ life'[hash].released = 0
                 /\ life'[hash].destroyed = 0
           /\ ret'.result # "FACTORY_RESULT_OK" =>
                 ~Has(m_Resources', hash) /\ ret'.resource = 0
C31_ReacquireAfterRelease == [][C31_Step]_vars

\* A name acquired twice and released twice has been acquired again: its
\* descriptor has count 1, at another address than the one destroyed.
C31_Witness ==
    /\ ret.op = "Get" /\ ret.result = "FACTORY_RESULT_OK"
    /\ Count(ret.calls, "create") = 1
    /\ ret.before.acquired = 2 /\ ret.before.released = 2
    /\ ret.before.destroyed = 1
    /\ ret.before.first # ret.resource
    /\ m_Resources[CanonicalPathHash(ret.name)].m_ReferenceCount = 1
    /\ m_Resources[CanonicalPathHash(ret.name)].m_Resource = ret.resource

\* C32. Reference-count accounting: the reference count of every interned
\* descriptor is the number of Get calls that returned Ok for its canonical
\* path less the number of Release calls on its address since it was
\* created; ReloadResource and GetDescriptor leave every count as it is, and
\* GetDescriptor hands out the descriptor with that count.
C32_Counted ==
    \A hash \in DOMAIN m_Resources :
        /\ Has(life, hash)
        /\ m_Resources[hash].m_ReferenceCount = life[hash].acquired - life[hash].released
C32_Step ==
    /\ C32_Counted'
    /\ Called("Get") /\ ret'.result = "FACTORY_RESULT_OK" =>
          life'[CanonicalPathHash(ret'.name)].acquired
            = IF Has(m_Resources, CanonicalPathHash(ret'.name))
              THEN life[CanonicalPathHash(ret'.name)].acquired + 1 ELSE 1
    /\ Called("Get") /\ ret'.result # "FACTORY_RESULT_OK" => life' = life
    /\ Called("Release") /\ Has(m_ResourceToHash, ret'.resource) =>
          life'[m_ResourceToHash[ret'.resource]].released
            = life[m_ResourceToHash[ret'.resource]].released + 1
    /\ Called("ReloadResource") \/ Called("GetDescriptor") =>
          /\ DOMAIN m_Resources' = DOMAIN m_Resources
          /\ \A hash \in DOMAIN m_Resources :
                m_Resources'[hash].m_ReferenceCount = m_Resources[hash].m_ReferenceCount
          /\ life' = life
    /\ Called("GetDescriptor") /\ ret'.result = "FACTORY_RESULT_OK" =>
          ret'.descriptor = m_Resources[CanonicalPathHash(ret'.name)]
C32_RefCountAccounting == [][C32_Step]_vars

\* A resource acquired twice, released once and reloaded with success: its
\* count is 1.
C32_Witness ==
    /\ ret.op = "ReloadResource" /\ ret.result = "RELOAD_RESULT_OK"
    /\ Has(m_Resources, CanonicalPathHash(ret.name))
    /\ life[CanonicalPathHash(ret.name)].acquired = 2
    /\ life[CanonicalPathHash(ret.name)].released = 1
    /\ m_Resources[CanonicalPathHash(ret.name)].m_ReferenceCount = 1

\* m_Resources and m_ResourceToHash are each other's inverse.
Inverse ==
    /\ \A hash \in DOMAIN m_Resources :
          /\ Has(m_ResourceToHash, m_Resources[hash].m_Resource)
          /\ m_ResourceToHash[m_Resources[hash].m_Resource] = hash
    /\ \A resource \in DOMAIN m_ResourceToHash :
          /\ Has(m_Resources, m_ResourceToHash[resource])
          /\ m_Resources[m_ResourceToHash[resource]].m_Resource = resource

\* C33. A factory made with neither the reload support nor the HTTP server
\* flag: RegisterResourceReloadedCallback and
\* UnregisterResourceReloadedCallback change nothing and report nothing, Get
\* stores no filename, and ReloadResource of an interned resource whose type
\* has a recreate function still loads, calls recreate when the load
\* succeeded and returns Ok when recreate did, notifying no observer; Get and
\* Release keep m_Resources and m_ResourceToHash each other's inverse, and
\* no assertion fails.
C33_Step ==
    /\ ~m_ReloadSupport'
    /\ m_ResourceReloadedCallbacks' = <<>>
    /\ DOMAIN m_ResourceHashToFilename' = {}
    /\ Inverse'
    /\ ret'.result # "ASSERTION_FAILED"
    /\ \/ Called("RegisterResourceReloadedCallback")
       \/ Called("UnregisterResourceReloadedCallback")
       => /\ ret'.calls = <<>>
          /\ UNCHANGED <<factoryVars, observerVars, m_ResourceTypes, configVars, loadVars>>
    /\ /\ Called("ReloadResource")
       /\ Has(m_Resources, CanonicalPathHash(ret'.name))
       /\ m_ResourceTypes[m_Resources[CanonicalPathHash(ret'.name)].m_ResourceType].m_RecreateFunction
       => /\ TransportCalls(ret'.calls) # <<>>
          /\ Notified(ret'.calls) = <<>>
          /\ IF LoadOf(ret'.calls).result # "FACTORY_RESULT_OK"
             THEN Count(ret'.calls, "recreate") = 0 /\ ret'.result = "RELOAD_RESULT_LOAD_ERROR"
             ELSE /\ Count(ret'.calls, "recreate") = 1
                  /\ ret'.calls[Len(ret'.calls)].call = "recreate"
                  /\ ret'.calls[Len(ret'.calls)].result = "CREATE_RESULT_OK"
                       <=> ret'.result = "RELOAD_RESULT_OK"
C33_WithoutReloadSupport == [][C33_Step]_vars

\* A reload that succeeded in such a factory: loaded, recreated, nobody
\* notified, no filename kept.
C33_Witness ==
    /\ ret.op = "ReloadResource" /\ ret.result = "RELOAD_RESULT_OK"
    /\ "RESOURCE_FACTORY_FLAGS_RELOAD_SUPPORT" \notin m_Flags
    /\ "RESOURCE_FACTORY_FLAGS_HTTP_SERVER" \notin m_Flags
    /\ Count(ret.calls, "recreate") = 1
    /\ Count(ret.calls, "notify") = 0
    /\ Has(m_Resources, CanonicalPathHash(ret.name))
    /\ ~Has(m_ResourceHashToFilename, CanonicalPathHash(ret.name))
    /\ m_ResourceReloadedCallbacks = <<>>

====
